---- MODULE Spec2Model ----
(***************************************************************************)
(* Trestle: the in-memory outline tree (TrestleModel) and its RDF          *)
(* projection (TrestleRDFModel).                                           *)
(*                                                                         *)
(* A JavaScript object is a TLA+ record whose DOMAIN is the set of the     *)
(* properties that are defined: "k" \in DOMAIN o  <=>  o.k !== undefined.  *)
(* The Map `nodes` is a function from the ids it holds to such records.   *)
(* An optional argument is the empty tuple when omitted and <<v>> when     *)
(* the number v is passed.  An RDF term is the string of its N-Triples     *)
(* form, a quad the tuple of its subject, predicate and object.           *)
(***************************************************************************)
EXTENDS Integers, Sequences, FiniteSets, TLC

VARIABLES
    nodes,       \* TrestleModel.nodes : Map id -> node object
    rootId,      \* TrestleModel.rootId
    rdfDataset,  \* TrestleRDFModel.rdfDataset : set of quads <<s, p, o>>
    clock,       \* the millisecond clock read by new Date()
    kind,        \* the class that was constructed
    inFlight,    \* the PUT requests of saveData that have not settled yet
    subscribers, \* EventBus.subscribers : Map event -> array of callbacks
    last         \* the last call made on the model and how it ended

vars == <<nodes, rootId, rdfDataset, clock, kind, inFlight, subscribers, last>>

----------------------------------------------------------------------------
(* Bounds *)

MaxClock == 3        \* ids are generated at the clock values 1..MaxClock
MaxClockUpdate == 2  \* the same, where updateNode takes part
MaxIndex == 1        \* index arguments range over -1..MaxIndex
MaxChildren == 2     \* children lists are kept this short where updateNode
                     \* lets moveNode insert an id a second time
MaxClockTree == 5    \* the same as MaxClock, where callers keep the tree shape
MaxClockSave == 4    \* the same, where the store is saved and loaded
MaxRows == 3         \* rows of a query result
MaxLen == 3          \* characters of a text that is escaped
MaxRowsInit == 2     \* rows of the query result that initialize() loads
MaxClockSibling == 4 \* the same as MaxClock, where siblings are added
MaxInFlight == 2     \* requests of saveData in flight at the same time
MaxNodes == 3        \* nodes of the store where ids are generated within
                     \* one millisecond
MaxRowsRace == 1     \* rows in the answer to a load that settles after
                     \* other calls
MaxSubscriptions == 3 \* callbacks subscribed to the bus at a time

----------------------------------------------------------------------------
(* Values *)

Null == "null"
Bogus == "nope"                 \* an id that no generator produces
Titles == {"a"}
Rand == {0}                     \* Math.random() * 10000, floored

None == <<>>
Some(v) == <<v>>
IsNumber(a) == a # None         \* typeof a === 'number'
IndexArgs == {None} \cup {Some(i) : i \in -1..MaxIndex}

Has(o, k) == k \in DOMAIN o
Put(o, k, v) == (k :> v) @@ o

Min(a, b) == IF a < b THEN a ELSE b
Max(a, b) == IF a > b THEN a ELSE b

BASE_URI == "http://hyperdata.it/trestle/"
DC == "http://purl.org/dc/terms/"
TS == "http://purl.org/stuff/trestle/"
RDFNS == "http://www.w3.org/1999/02/22-rdf-syntax-ns#"
XSD == "http://www.w3.org/2001/XMLSchema#"

\* RDF terms in their N-Triples form
Ns(base, local) == base \o local                \* rdf.namespace(base)(local)
NodeUri(id) == BASE_URI \o id                   \* `${this.baseUri}${id}`
NamedNode(iri) == "<" \o iri \o ">"             \* rdf.namedNode
Literal(str, datatype) == "'" \o str \o "'^^" \o datatype             \* rdf.literal
PlainLiteral(str) == Literal(str, Ns(XSD, "string"))

----------------------------------------------------------------------------
(* utils.js *)

generateID(now, r) == ToString(now) \o "-" \o ToString(r)
generateDate(now) == "T" \o ToString(now)       \* new Date().toISOString()
generateNodeId(prefix, now, r) == prefix \o "-" \o generateID(now, r)

----------------------------------------------------------------------------
(* Array primitives *)

\* Array.prototype.splice(start, 0, x): the start is clamped as ECMAScript does
SpliceStart(len, start) ==
    IF start < 0 THEN Max(len + start, 0) ELSE Min(start, len)

SpliceInsert(s, start, x) ==
    LET k == SpliceStart(Len(s), start)
    IN  SubSeq(s, 1, k) \o <<x>> \o SubSeq(s, k + 1, Len(s))

\* Array.prototype.splice(k, 1) for 0 <= k < length
SpliceRemove(s, k) == SubSeq(s, 1, k) \o SubSeq(s, k + 2, Len(s))

\* Array.prototype.indexOf
IndexOf(s, x) ==
    IF \E i \in 1..Len(s) : s[i] = x
    THEN (CHOOSE i \in 1..Len(s) : s[i] = x /\ \A j \in 1..(i - 1) : s[j] # x) - 1
    ELSE -1

Range(s) == {s[i] : i \in 1..Len(s)}

----------------------------------------------------------------------------
(* TrestleModel *)

\* a variant that leaves the index fields as they are
updateChildIndices_skip(ns, parentId) == ns

\* forEach((childId, index) => child.index = index): a later occurrence of
\* the same id overwrites an earlier one
updateChildIndices(ns, parentId) ==
    IF ~Has(ns[parentId], "children") THEN ns
    ELSE LET ch == ns[parentId].children
             lastPos(c) == CHOOSE i \in 1..Len(ch) :
                              ch[i] = c /\ \A j \in (i + 1)..Len(ch) : ch[j] # c
         IN  [n \in DOMAIN ns |->
                 IF n \in Range(ch) THEN Put(ns[n], "index", lastPos(n) - 1)
                 ELSE ns[n]]

RootObject(id) == [id |-> id, type |-> "RootNode", children |-> <<>>]

createEmptyModelNodes(ns, id) == (id :> RootObject(id)) @@ ns

NewNodeObject(nodeId, parentId, title, index, now) ==
    LET base == [id |-> nodeId, type |-> "Node", title |-> title,
                 created |-> generateDate(now), parent |-> parentId,
                 children |-> <<>>]
    IN  IF IsNumber(index) THEN Put(base, "index", index[1]) ELSE base

addNodeNodes(ns, parentId, title, index, nodeId, now) ==
    LET ns1 == (nodeId :> NewNodeObject(nodeId, parentId, title, index, now)) @@ ns
    IN  IF parentId \notin DOMAIN ns1 THEN ns1
        ELSE LET ch == IF Has(ns1[parentId], "children")
                       THEN ns1[parentId].children ELSE <<>>
             IN  IF IsNumber(index)
                 THEN updateChildIndices(
                          [ns1 EXCEPT ![parentId] =
                              Put(@, "children", SpliceInsert(ch, index[1], nodeId))],
                          parentId)
                 ELSE LET ns2 == [ns1 EXCEPT ![nodeId] = Put(@, "index", Len(ch))]
                      IN  [ns2 EXCEPT ![parentId] =
                              Put(@, "children", Append(ch, nodeId))]

\* the first half of moveNode: take nodeId out of the node its parent field names
RemoveFromOldParent(ns, nodeId) ==
    LET node == ns[nodeId]
    IN  IF Has(node, "parent") /\ node.parent \in DOMAIN ns
           /\ Has(ns[node.parent], "children")
           /\ IndexOf(ns[node.parent].children, nodeId) # -1
        THEN LET p == node.parent
                 k == IndexOf(ns[p].children, nodeId)
             IN  updateChildIndices(
                     [ns EXCEPT ![p] = Put(@, "children", SpliceRemove(@.children, k))],
                     p)
        ELSE ns

\* the second half of moveNode: insert into newParentId when it resolves
AddToNewParent(ns, nodeId, newParentId, newIndex) ==
    IF newParentId \notin DOMAIN ns THEN ns
    ELSE LET ch0 == IF Has(ns[newParentId], "children")
                    THEN ns[newParentId].children ELSE <<>>
             ch == IF IsNumber(newIndex)
                   THEN SpliceInsert(ch0, newIndex[1], nodeId)
                   ELSE Append(ch0, nodeId)
             idx == IF IsNumber(newIndex) THEN newIndex[1] ELSE Len(ch) - 1
             ns1 == [ns EXCEPT ![newParentId] = Put(@, "children", ch)]
             ns2 == [ns1 EXCEPT ![nodeId] =
                        Put(Put(@, "parent", newParentId), "index", idx)]
         IN  updateChildIndices(ns2, newParentId)

moveNodeNodes(ns, nodeId, newParentId, newIndex) ==
    IF nodeId \notin DOMAIN ns THEN ns
    ELSE AddToNewParent(RemoveFromOldParent(ns, nodeId), nodeId, newParentId, newIndex)

Without(ns, id) == [n \in DOMAIN ns \ {id} |-> ns[n]]

\* a variant of the tail of deleteNode that leaves the parent's list alone
RemoveFromMapOnly(ns, nodeId) == Without(ns, nodeId)

\* the tail of deleteNode, after the children were deleted
RemoveFromParentAndMap(ns, nodeId) ==
    LET node == ns[nodeId]
        ns1 == IF Has(node, "parent") /\ node.parent \in DOMAIN ns
                  /\ Has(ns[node.parent], "children")
                  /\ IndexOf(ns[node.parent].children, nodeId) # -1
               THEN LET p == node.parent
                        k == IndexOf(ns[p].children, nodeId)
                    IN  updateChildIndices(
                            [ns EXCEPT ![p] =
                                Put(@, "children", SpliceRemove(@.children, k))],
                            p)
               ELSE ns
    IN  Without(ns1, nodeId)

\* deleteNode recurses into the children before it changes anything of the
\* node itself.  `stack` holds the ids of the activations in progress: a call
\* on an id of the stack finds the same child again and recurses without end,
\* which the engine ends with a RangeError (threw), the deletions done so far
\* staying in place.
RECURSIVE deleteNodeRec(_, _, _)
RECURSIVE deleteChildren(_, _, _, _)

deleteChildren(ns, childrenToDelete, i, stack) ==
    IF i > Len(childrenToDelete) THEN [nodes |-> ns, threw |-> FALSE]
    ELSE LET r == deleteNodeRec(ns, childrenToDelete[i], stack)
         IN  IF r.threw THEN r
             ELSE deleteChildren(r.nodes, childrenToDelete, i + 1, stack)

deleteNodeRec(ns, nodeId, stack) ==
    IF nodeId \notin DOMAIN ns THEN [nodes |-> ns, threw |-> FALSE]
    ELSE IF nodeId \in stack THEN [nodes |-> ns, threw |-> TRUE]
    ELSE LET childrenToDelete == IF Has(ns[nodeId], "children")
                                 THEN ns[nodeId].children ELSE <<>>
             r == deleteChildren(ns, childrenToDelete, 1, stack \cup {nodeId})
         IN  IF r.threw THEN r
             ELSE [nodes |-> RemoveFromParentAndMap(r.nodes, nodeId), threw |-> FALSE]

deleteNodeNodes(ns, nodeId) == deleteNodeRec(ns, nodeId, {})

\* Object.assign(node, properties)
updateNodeNodes(ns, nodeId, properties) ==
    IF nodeId \notin DOMAIN ns THEN ns
    ELSE [ns EXCEPT ![nodeId] = properties @@ @]

updateNodeDescriptionNodes(ns, nodeId, description) ==
    IF nodeId \notin DOMAIN ns THEN ns
    ELSE [ns EXCEPT ![nodeId] = Put(@, "description", description)]

getRootNode(ns, rid) == IF rid \in DOMAIN ns THEN {ns[rid]} ELSE {}

----------------------------------------------------------------------------
(* TrestleRDFModel *)

Quad(s, p, o) == <<s, p, o>>
Subject(id) == NamedNode(NodeUri(id))

rdf_type == NamedNode(Ns(RDFNS, "type"))
dc_title == NamedNode(Ns(DC, "title"))
dc_created == NamedNode(Ns(DC, "created"))
dc_description == NamedNode(Ns(DC, "description"))
ts_description == NamedNode(Ns(TS, "description"))
ts_parent == NamedNode(Ns(TS, "parent"))
ts_index == NamedNode(Ns(TS, "index"))
xsd_dateTime == Ns(XSD, "dateTime")

\* the quads addNodeToRDF adds for one node object; `now` is the clock that
\* the dc:created fallback reads
NodeQuads(node, now) ==
    LET s == Subject(node.id)
    IN  {Quad(s, rdf_type,
              NamedNode(Ns(TS, IF Has(node, "type") THEN node.type ELSE "undefined")))}
        \cup (IF Has(node, "title")
              THEN {Quad(s, dc_title, PlainLiteral(node.title))} ELSE {})
        \cup (IF Has(node, "created") /\ node.created # ""
              THEN {Quad(s, dc_created, Literal(node.created, xsd_dateTime))}
              ELSE {Quad(s, dc_created, Literal(generateDate(now), xsd_dateTime))})
        \cup (IF Has(node, "description")
              THEN {Quad(s, ts_description, PlainLiteral(node.description))} ELSE {})
        \cup (IF Has(node, "parent")
              THEN {Quad(s, ts_parent, Subject(node.parent))} ELSE {})
        \cup (IF Has(node, "index")
              THEN {Quad(s, ts_index, PlainLiteral(ToString(node.index)))} ELSE {})

addNodeToRDF(ds, node, now) == ds \cup NodeQuads(node, now)

buildRDFDataset(ns, now) == UNION {NodeQuads(ns[n], now) : n \in DOMAIN ns}

\* rdfDataset.match(subject)
MatchSubject(ds, id) == LET s == Subject(id) IN {q \in ds : q[1] = s}
\* rdfDataset.match(null, null, subject)
MatchObject(ds, id) == LET s == Subject(id) IN {q \in ds : q[3] = s}
\* rdfDataset.match(subject, predicate)
MatchSubjectPredicate(ds, id, p) ==
    LET s == Subject(id) IN {q \in ds : q[1] = s /\ q[2] = p}

removeNodeFromRDF(ds, id) ==
    LET s == Subject(id) IN {q \in ds : q[1] # s /\ q[3] # s}

\* getAllDescendantIds: preorder over the children lists; a cycle below
\* nodeId makes the recursion endless (threw)
RECURSIVE getAllDescendantIds(_, _, _)
RECURSIVE DescendantsOfChildren(_, _, _, _)

DescendantsOfChildren(ns, ch, i, stack) ==
    IF i > Len(ch) THEN [ids |-> <<>>, threw |-> FALSE]
    ELSE LET d == getAllDescendantIds(ns, ch[i], stack)
         IN  IF d.threw THEN d
             ELSE LET rest == DescendantsOfChildren(ns, ch, i + 1, stack)
                  IN  IF rest.threw THEN rest
                      ELSE [ids |-> <<ch[i]>> \o d.ids \o rest.ids, threw |-> FALSE]

getAllDescendantIds(ns, nodeId, stack) ==
    IF nodeId \notin DOMAIN ns \/ ~Has(ns[nodeId], "children")
       \/ Len(ns[nodeId].children) = 0
    THEN [ids |-> <<>>, threw |-> FALSE]
    ELSE IF nodeId \in stack THEN [ids |-> <<>>, threw |-> TRUE]
    ELSE DescendantsOfChildren(ns, ns[nodeId].children, 1, stack \cup {nodeId})

RECURSIVE RemoveAllFromRDF(_, _, _)
RemoveAllFromRDF(ds, ids, i) ==
    IF i > Len(ids) THEN ds
    ELSE RemoveAllFromRDF(removeNodeFromRDF(ds, ids[i]), ids, i + 1)

\* removeNodeFromRDF + addNodeToRDF for the children of the new parent, in order
RECURSIVE ReprojectChildren(_, _, _, _, _)
ReprojectChildren(ds, ns, ch, i, now) ==
    IF i > Len(ch) THEN ds
    ELSE ReprojectChildren(
             IF ch[i] \in DOMAIN ns
             THEN addNodeToRDF(removeNodeFromRDF(ds, ch[i]), ns[ch[i]], now)
             ELSE ds,
             ns, ch, i + 1, now)

\* the RDF part of TrestleRDFModel.moveNode, ns being the node table after
\* super.moveNode
moveNodeRDF(ds, ns, nodeId, newParentId, now) ==
    LET ds1 == IF nodeId \in DOMAIN ns
               THEN addNodeToRDF(removeNodeFromRDF(ds, nodeId), ns[nodeId], now)
               ELSE ds
    IN  IF newParentId \in DOMAIN ns /\ Has(ns[newParentId], "children")
        THEN ReprojectChildren(ds1, ns, ns[newParentId].children, 1, now)
        ELSE ds1

\* the RDF part of TrestleRDFModel.updateNode
updateNodeRDF(ds, ns, nodeId, now) ==
    IF nodeId \in DOMAIN ns
    THEN addNodeToRDF(ds \ MatchSubject(ds, nodeId), ns[nodeId], now)
    ELSE ds

\* the RDF part of TrestleRDFModel.updateNodeDescription
updateNodeDescriptionRDF(ds, ns, nodeId, description) ==
    IF nodeId \notin DOMAIN ns THEN ds
    ELSE LET ds1 == ds \ MatchSubjectPredicate(ds, nodeId, dc_description)
         IN  IF description # ""
             THEN ds1 \cup {Quad(Subject(nodeId), dc_description,
                                 PlainLiteral(description))}
             ELSE ds1

----------------------------------------------------------------------------
(* Saving and loading *)

\* A URI that is read back is the sequence of the parts that split('/')
\* gives.  An id or a type name has no '/' in it, so appending it to a
\* prefix that ends in '/' extends the last (empty) part.
BaseUriParts == <<"http:", "", "hyperdata.it", "trestle", "">>
TsParts == <<"http:", "", "purl.org", "stuff", "trestle", "">>
UriParts(prefixParts, local) ==
    [prefixParts EXCEPT ![Len(prefixParts)] = @ \o local]

\* parts[parts.length - 1]
extractLocalId(parts) == parts[Len(parts)]
extractLocalType(parts) == parts[Len(parts)]

\* parseInt(str, 10) of the decimal numeral of an integer
parseInt(str) == CHOOSE n \in -1..(MaxClockTree + MaxIndex) : ToString(n) = str

\* the keys of the Map in insertion order: nodes are set in the order in
\* which their ids were generated
RECURSIVE IdsInOrder(_, _)
IdsInOrder(ns, c) ==
    IF c = 0 THEN <<>>
    ELSE LET ids == {id \in DOMAIN ns :
                        \E prefix \in {"root", "nid"}, r \in Rand :
                            id = generateNodeId(prefix, c, r)}
         IN  IdsInOrder(ns, c - 1)
                 \o (IF ids = {} THEN <<>> ELSE <<CHOOSE id \in ids : TRUE>>)

\* node.children, or the empty list that replaces a missing one
ChildrenList(node) == IF Has(node, "children") THEN node.children ELSE <<>>

\* a string or id that `if (x)` accepts
Truthy(o, k) == Has(o, k) /\ o[k] # ""

\* what toTurtle writes for the root, as the row the load query returns
RootBinding(node) ==
    [node |-> UriParts(BaseUriParts, node.id), type |-> UriParts(TsParts, "RootNode")]

\* what toTurtle writes for a node of type Node, as the row the load query
\* returns for it
NodeBinding(node, rid) ==
    (IF Truthy(node, "title") THEN [title |-> node.title] ELSE <<>>)
    @@ (IF Truthy(node, "created") THEN [created |-> node.created] ELSE <<>>)
    @@ [node |-> UriParts(BaseUriParts, node.id),
        type |-> UriParts(TsParts, "Node"),
        index |-> IF Has(node, "index") THEN ToString(node.index) ELSE "undefined",
        parent |-> UriParts(BaseUriParts,
                            IF Truthy(node, "parent") THEN node.parent ELSE rid)]

RECURSIVE OtherBindings(_, _, _, _)
OtherBindings(ns, rid, order, i) ==
    IF i > Len(order) THEN <<>>
    ELSE (IF order[i] # rid /\ Has(ns[order[i]], "type") /\ ns[order[i]].type = "Node"
          THEN <<NodeBinding(ns[order[i]], rid)>> ELSE <<>>)
         \o OtherBindings(ns, rid, order, i + 1)

\* toTurtle, read through the load query: one row per subject written
toTurtle(ns, rid, order) ==
    (IF rid \in DOMAIN ns THEN <<RootBinding(ns[rid])>> ELSE <<>>)
    \o OtherBindings(ns, rid, order, 1)


\* the first pass of processLoadedData over one row
LoadBinding(acc, binding) ==
    LET nodeId == extractLocalId(binding.node)
        type == extractLocalType(binding.type)
        n0 == IF nodeId \in DOMAIN acc.map THEN acc.map[nodeId]
              ELSE [id |-> nodeId, children |-> <<>>]
        n1 == Put(n0, "type", type)
        n2 == IF Has(binding, "title") THEN Put(n1, "title", binding.title) ELSE n1
        n3 == IF Has(binding, "created") THEN Put(n2, "created", binding.created) ELSE n2
        n4 == IF Has(binding, "index") THEN Put(n3, "index", parseInt(binding.index)) ELSE n3
        n5 == IF Has(binding, "parent")
              THEN Put(n4, "parent", extractLocalId(binding.parent)) ELSE n4
    IN  [map |-> (nodeId :> n5) @@ acc.map,
         order |-> IF nodeId \in DOMAIN acc.map THEN acc.order
                   ELSE Append(acc.order, nodeId),
         rootId |-> IF type = "RootNode" THEN nodeId ELSE acc.rootId]

RECURSIVE FirstPass(_, _, _)
FirstPass(bindings, i, acc) ==
    IF i > Len(bindings) THEN acc
    ELSE FirstPass(bindings, i + 1, LoadBinding(acc, bindings[i]))

\* the second pass: every node whose parent is in the map is pushed on the
\* parent's children, in the order of the map
RECURSIVE SecondPass(_, _, _)
SecondPass(map, order, i) ==
    IF i > Len(order) THEN map
    ELSE LET id == order[i]
             node == map[id]
         IN  SecondPass(
                 IF Truthy(node, "parent") /\ node.parent \in DOMAIN map
                 THEN [map EXCEPT ![node.parent] =
                          Put(@, "children", Append(ChildrenList(@), id))]
                 ELSE map,
                 order, i + 1)

\* (node.index || 0)
SortKey(map, id) == IF Has(map[id], "index") THEN map[id].index ELSE 0

\* a variant that leaves the list in the order of the pushes
SortByIndex_unsorted(map, ch, i, sorted) == ch

\* Array.prototype.sort with the comparator keyA - keyB: stable
RECURSIVE SortByIndex(_, _, _, _)
SortByIndex(map, ch, i, sorted) ==
    IF i > Len(ch) THEN sorted
    ELSE LET k == Cardinality({j \in 1..Len(sorted) :
                                  SortKey(map, sorted[j]) <= SortKey(map, ch[i])})
         IN  SortByIndex(map, ch, i + 1,
                         SubSeq(sorted, 1, k) \o <<ch[i]>>
                             \o SubSeq(sorted, k + 1, Len(sorted)))

\* processLoadedData(data): the node table and rootId it leaves
processLoadedData(bindings) ==
    LET first == FirstPass(bindings, 1, [map |-> <<>>, order |-> <<>>, rootId |-> Null])
        linked == SecondPass(first.map, first.order, 1)
    IN  [nodes |-> [id \in DOMAIN linked |->
                       IF Len(ChildrenList(linked[id])) > 0
                       THEN Put(linked[id], "children",
                                SortByIndex(linked, linked[id].children, 1, <<>>))
                       ELSE linked[id]],
         rootId |-> first.rootId]

----------------------------------------------------------------------------
(* Shapes of the node table *)

ChildrenOf(ns, n) == IF Has(ns[n], "children") THEN ns[n].children ELSE <<>>

NoDuplicates(seq) == \A i, j \in 1..Len(seq) : seq[i] = seq[j] => i = j

\* n is reached from m by following parent fields, in at most fuel steps
RECURSIVE IsAncestor(_, _, _, _)
IsAncestor(ns, n, m, fuel) ==
    /\ fuel > 0
    /\ m \in DOMAIN ns
    /\ Has(ns[m], "parent")
    /\ \/ ns[m].parent = n
       \/ IsAncestor(ns, n, ns[m].parent, fuel - 1)

Acyclic(ns) == \A n \in DOMAIN ns : ~IsAncestor(ns, n, n, Cardinality(DOMAIN ns))

\* the ids reached from n through children lists, in at most fuel levels
RECURSIVE Descendants(_, _, _)
Descendants(ns, n, fuel) ==
    IF fuel = 0 \/ n \notin DOMAIN ns THEN {}
    ELSE LET ch == Range(ChildrenOf(ns, n))
         IN  ch \cup UNION {Descendants(ns, c, fuel - 1) : c \in ch}

Subtree(ns, n) == {n} \cup Descendants(ns, n, Cardinality(DOMAIN ns))

\* children lists and parent fields describe the same forest: every listed
\* child is a node that names the owner as parent and holds its position,
\* every node that names a parent is listed by it, and there is no cycle
TreeShaped(ns) ==
    /\ \A p \in DOMAIN ns :
          /\ NoDuplicates(ChildrenOf(ns, p))
          /\ \A i \in 1..Len(ChildrenOf(ns, p)) :
                LET c == ChildrenOf(ns, p)[i]
                IN  /\ c \in DOMAIN ns
                    /\ Has(ns[c], "parent") /\ ns[c].parent = p
                    /\ Has(ns[c], "index") /\ ns[c].index = i - 1
    /\ \A n \in DOMAIN ns :
          Has(ns[n], "parent") =>
              /\ ns[n].parent \in DOMAIN ns
              /\ n \in Range(ChildrenOf(ns, ns[n].parent))
    /\ Acyclic(ns)

----------------------------------------------------------------------------
(* The calls *)

IsRDF == kind = "TrestleRDFModel"

\* what `last` records of a call: the method, the node id it was given (for
\* addNode and createEmptyModel the id it generated), whether it ended in
\* an exception, and the size and shape of the node table when it was made
Call(op, nodeId, threw) ==
    [op |-> op, nodeId |-> nodeId, threw |-> threw,
     before |-> Cardinality(DOMAIN nodes), tree |-> TreeShaped(nodes)]

\* the subscriptions the constructor of the model makes on the bus; it keeps
\* none of the functions subscribe() returns
ModelSubscriptions ==
    [e \in {"node:updated", "node:moved", "node:deleted"} |->
        IF e = "node:updated" THEN <<"handleNodeUpdate">>
        ELSE IF e = "node:moved" THEN <<"handleNodeMove">>
        ELSE <<"handleNodeDelete">>]

\* new TrestleModel(...) / new TrestleRDFModel(...)
Init ==
    /\ nodes = <<>>
    /\ rootId = Null
    /\ rdfDataset = {}
    /\ clock = 1
    /\ inFlight = <<>>
    /\ subscribers = ModelSubscriptions
    /\ kind \in {"TrestleModel", "TrestleRDFModel"}
    /\ last = [op |-> "new", nodeId |-> Null, threw |-> FALSE, before |-> 0,
               tree |-> TRUE]

\* the store as initialize() leaves it when the load fails: createEmptyModel
\* was called once on the new object
InitReady ==
    /\ kind \in {"TrestleModel", "TrestleRDFModel"}
    /\ \E r \in Rand :
          LET id == generateNodeId("root", 1, r)
              ns == createEmptyModelNodes(<<>>, id)
          IN  /\ nodes = ns
              /\ rootId = id
              /\ rdfDataset = IF IsRDF THEN buildRDFDataset(ns, 1) ELSE {}
              /\ last = [op |-> "createEmptyModel", nodeId |-> id,
                         threw |-> FALSE, before |-> 0, tree |-> TRUE]
    /\ clock = 2
    /\ inFlight = <<>>
    /\ subscribers = ModelSubscriptions

\* ids that callers pass: those of the store and one that is not in it
IdArgs == DOMAIN nodes \cup {Bogus}

\* properties objects that callers pass to updateNode
PropertiesArgs ==
    {[title |-> "b"]} \cup {[parent |-> p] : p \in IdArgs}

DescriptionArgs == {"", "d"}

\* Successive calls are made at successive clock values: two ids are never
\* generated within the same millisecond.
CreateEmptyModel ==
    /\ \E r \in Rand :
          LET id == generateNodeId("root", clock, r)
              ns == createEmptyModelNodes(nodes, id)
          IN  /\ nodes' = ns
              /\ rootId' = id
              /\ rdfDataset' = IF IsRDF THEN buildRDFDataset(ns, clock) ELSE rdfDataset
              /\ last' = Call("createEmptyModel", id, FALSE)
    /\ clock' = clock + 1
    /\ UNCHANGED <<kind, inFlight, subscribers>>

AddNode(parentId, title, index) ==
    /\ \E r \in Rand :
          LET id == generateNodeId("nid", clock, r)
              ns == addNodeNodes(nodes, parentId, title, index, id, clock)
          IN  /\ nodes' = ns
              /\ rdfDataset' = IF IsRDF THEN addNodeToRDF(rdfDataset, ns[id], clock)
                                ELSE rdfDataset
              /\ last' = Call("addNode", id, FALSE)
    /\ clock' = clock + 1
    /\ UNCHANGED <<rootId, kind, inFlight, subscribers>>

MoveNode(nodeId, newParentId, newIndex) ==
    LET ns == moveNodeNodes(nodes, nodeId, newParentId, newIndex)
    IN  /\ nodes' = ns
        /\ rdfDataset' = IF IsRDF
                          THEN moveNodeRDF(rdfDataset, ns, nodeId, newParentId, clock)
                          ELSE rdfDataset
        /\ last' = Call("moveNode", nodeId, FALSE)
        /\ UNCHANGED <<rootId, clock, kind, inFlight, subscribers>>

\* TrestleRDFModel.deleteNode collects the descendants first, so that an
\* endless recursion there ends the call before anything is deleted
DeleteNode(nodeId) ==
    LET d == getAllDescendantIds(nodes, nodeId, {})
        r == deleteNodeNodes(nodes, nodeId)
    IN  /\ IF IsRDF /\ d.threw
           THEN /\ UNCHANGED <<nodes, rdfDataset>>
                /\ last' = Call("deleteNode", nodeId, TRUE)
           ELSE /\ nodes' = r.nodes
                /\ rdfDataset' = IF IsRDF
                                  THEN RemoveAllFromRDF(rdfDataset,
                                                        Append(d.ids, nodeId), 1)
                                  ELSE rdfDataset
                /\ last' = Call("deleteNode", nodeId, r.threw)
        /\ UNCHANGED <<rootId, clock, kind, inFlight, subscribers>>

UpdateNode(nodeId, properties) ==
    LET ns == updateNodeNodes(nodes, nodeId, properties)
    IN  /\ nodes' = ns
        /\ rdfDataset' = IF IsRDF THEN updateNodeRDF(rdfDataset, ns, nodeId, clock)
                          ELSE rdfDataset
        /\ last' = Call("updateNode", nodeId, FALSE)
        /\ UNCHANGED <<rootId, clock, kind, inFlight, subscribers>>

UpdateNodeDescription(nodeId, description) ==
    LET ns == updateNodeDescriptionNodes(nodes, nodeId, description)
    IN  /\ nodes' = ns
        /\ rdfDataset' = IF IsRDF
                          THEN updateNodeDescriptionRDF(rdfDataset, ns, nodeId, description)
                          ELSE rdfDataset
        /\ last' = Call("updateNodeDescription", nodeId, FALSE)
        /\ UNCHANGED <<rootId, clock, kind, inFlight, subscribers>>

\* titles that callers pass where saving takes part: the controller adds
\* every node with the empty title
TitleArgs == {"", "a"}

\* saveData followed by loadData against an endpoint that keeps what it is
\* sent: the rows toTurtle writes come back in processLoadedData
SaveAndLoad ==
    LET r == processLoadedData(toTurtle(nodes, rootId, IdsInOrder(nodes, clock)))
    IN  /\ nodes' = r.nodes
        /\ rootId' = r.rootId
        /\ last' = Call("processLoadedData", rootId, FALSE)
        /\ UNCHANGED <<rdfDataset, clock, kind, inFlight, subscribers>>

\* what fetch gives the PUT: a response that is ok, a response that is not,
\* or a rejection
FetchOutcomes == {"ok", "notOk", "rejected"}

\* a variant of saveData without the catch block
saveData_uncaught(turtle, outcome) ==
    IF outcome = "ok"
    THEN [result |-> TRUE, threw |-> FALSE, published |-> <<>>]
    ELSE [result |-> Null, threw |-> TRUE, published |-> <<>>]

\* saveData: what it resolves to, whether it rejects, and the events it
\* publishes; a rejection of fetch and the Error thrown for a response that
\* is not ok both end in the catch block
saveData(turtle, outcome) ==
    LET thrown == outcome = "rejected" \/ outcome = "notOk"
    IN  IF ~thrown
        THEN [result |-> TRUE, threw |-> FALSE, published |-> <<>>]
        ELSE [result |-> FALSE, threw |-> FALSE,
              published |-> <<"model:error">>]

SaveData(outcome) ==
    LET turtle == toTurtle(nodes, rootId, IdsInOrder(nodes, clock))
        r == saveData(turtle, outcome)
    IN  /\ last' = Call("saveData", rootId, r.threw)
                   @@ [outcome |-> outcome, result |-> r.result,
                       published |-> r.published, body |-> turtle]
        /\ UNCHANGED <<nodes, rootId, rdfDataset, clock, kind, inFlight, subscribers>>

\* a variant of saveData that starts no request while one is in flight
StartSave_deduplicated ==
    /\ inFlight' = IF inFlight = <<>>
                   THEN <<[body |-> toTurtle(nodes, rootId, IdsInOrder(nodes, clock))]>>
                   ELSE inFlight
    /\ last' = Call("saveData", rootId, FALSE)
    /\ UNCHANGED <<nodes, rootId, rdfDataset, clock, kind, subscribers>>

\* saveData up to its await: the Turtle of the tree as it is now is handed
\* to fetch, whatever requests are still in flight
StartSave ==
    /\ inFlight' = Append(inFlight,
                          [body |-> toTurtle(nodes, rootId, IdsInOrder(nodes, clock))])
    /\ last' = Call("saveData", rootId, FALSE)
    /\ UNCHANGED <<nodes, rootId, rdfDataset, clock, kind, subscribers>>

\* the i-th request in flight settles and its saveData call resumes
SettleSave(i, outcome) ==
    /\ i \in 1..Len(inFlight)
    /\ inFlight' = SpliceRemove(inFlight, i - 1)
    /\ LET r == saveData(inFlight[i].body, outcome)
       IN  last' = Call("saveData settled", rootId, r.threw)
                   @@ [outcome |-> outcome, result |-> r.result,
                       published |-> r.published, body |-> inFlight[i].body]
    /\ UNCHANGED <<nodes, rootId, rdfDataset, clock, kind, subscribers>>

\* A text that is escaped is the sequence of its characters.
\* String.prototype.replace(/c/g, by): every occurrence of the character
RECURSIVE ReplaceAll(_, _, _)
ReplaceAll(text, c, by) ==
    IF text = <<>> THEN <<>>
    ELSE (IF Head(text) = c THEN by ELSE <<Head(text)>>)
         \o ReplaceAll(Tail(text), c, by)

\* a variant that escapes the backslashes after the other characters
escapeTurtle_backslashLast(text) ==
    ReplaceAll(
        ReplaceAll(
            ReplaceAll(
                ReplaceAll(
                    ReplaceAll(text, "\"", <<"\\", "\"">>),
                    "\n", <<"\\", "n">>),
                "\r", <<"\\", "r">>),
            "\t", <<"\\", "t">>),
        "\\", <<"\\", "\\">>)

escapeTurtle(text) ==
    IF text = <<>> THEN <<>>
    ELSE ReplaceAll(
             ReplaceAll(
                 ReplaceAll(
                     ReplaceAll(
                         ReplaceAll(text, "\\", <<"\\", "\\">>),
                         "\"", <<"\\", "\"">>),
                     "\n", <<"\\", "n">>),
                 "\r", <<"\\", "r">>),
             "\t", <<"\\", "t">>)

\* the characters of the texts that are escaped, and the texts
Characters == {"\\", "\"", "\n", "\r", "\t", "n", "a"}
RECURSIVE Texts(_)
Texts(len) ==
    IF len = 0 THEN {<<>>}
    ELSE LET shorter == Texts(len - 1)
         IN  shorter \cup {Append(t, c) : t \in {s \in shorter : Len(s) = len - 1},
                                          c \in Characters}

\* a text is about to be written by toTurtle
InitText ==
    /\ nodes = <<>> /\ rootId = Null /\ rdfDataset = {} /\ clock = 1
    /\ inFlight = <<>>
    /\ subscribers = <<>>
    /\ kind = "TrestleModel"
    /\ \E text \in Texts(MaxLen) : last = [op |-> "text", text |-> text]

EscapeTurtle ==
    /\ last.op = "text"
    /\ last' = [op |-> "escapeTurtle", text |-> last.text,
                result |-> escapeTurtle(last.text)]
    /\ UNCHANGED <<nodes, rootId, rdfDataset, clock, kind, inFlight, subscribers>>

\* rows that the endpoint may return to the load query: every row has the
\* node and its type, and may have a parent and an index
LoadedIds == {"x", "y", "z"}
Rows ==
    {node @@ parent @@ index :
        node \in {[node |-> UriParts(BaseUriParts, n), type |-> UriParts(TsParts, t)] :
                     n \in LoadedIds, t \in {"RootNode", "Node"}},
        parent \in {<<>>} \cup {[parent |-> UriParts(BaseUriParts, p)] :
                                   p \in {"x", "gone"}},
        index \in {<<>>} \cup {[index |-> ToString(i)] : i \in 1..MaxIndex}}

RECURSIVE RowLists(_)
RowLists(len) ==
    IF len = 0 THEN {<<>>}
    ELSE LET shorter == RowLists(len - 1)
         IN  shorter \cup {Append(l, r) : l \in {s \in shorter : Len(s) = len - 1},
                                          r \in Rows}

\* initialize(): loadData on the new model, with the rows the endpoint returns
LoadData(bindings) ==
    LET r == processLoadedData(bindings)
    IN  /\ last.op = "new"
        /\ nodes' = r.nodes
        /\ rootId' = r.rootId
        /\ last' = [Call("processLoadedData", r.rootId, FALSE) EXCEPT
                       !.tree = TreeShaped(r.nodes)] @@ [data |-> bindings]
        /\ UNCHANGED <<rdfDataset, clock, kind, inFlight, subscribers>>

\* Calls that follow each other within one millisecond: Date.now() is the
\* same for them and Math.random() is drawn again for each.
RandArgs == {0, 1}

Tick ==
    /\ clock' = clock + 1
    /\ last' = Call("tick", Null, FALSE)
    /\ UNCHANGED <<nodes, rootId, rdfDataset, kind, inFlight, subscribers>>

CreateEmptyModelInMs(r) ==
    LET id == generateNodeId("root", clock, r)
        ns == createEmptyModelNodes(nodes, id)
    IN  /\ nodes' = ns
        /\ rootId' = id
        /\ rdfDataset' = IF IsRDF THEN buildRDFDataset(ns, clock) ELSE rdfDataset
        /\ last' = Call("createEmptyModel", id, FALSE)
        /\ UNCHANGED <<clock, kind, inFlight, subscribers>>

AddNodeInMs(parentId, title, index, r) ==
    LET id == generateNodeId("nid", clock, r)
        ns == addNodeNodes(nodes, parentId, title, index, id, clock)
    IN  /\ nodes' = ns
        /\ rdfDataset' = IF IsRDF THEN addNodeToRDF(rdfDataset, ns[id], clock)
                          ELSE rdfDataset
        /\ last' = Call("addNode", id, FALSE)
        /\ UNCHANGED <<rootId, clock, kind, inFlight, subscribers>>

\* RDFModel.createPostData.  A post is a record of the fields it has; the
\* named-node constructions that throw are given by the set of the fields
\* whose value the data factory rejects.
SQUIRT == "http://purl.org/stuff/squirt#"
FOAF == "http://xmlns.com/foaf/0.1/"

\* the fields whose value createPostData hands to rdf.namedNode
UriFields == {"url", "foafMbox", "foafHomepage", "foafImg", "source"}

PostTypes == {"entry", "link", "profile"}

\* posts with a custom id and a title, and any of the fields above
PostData ==
    {[customId |-> "post", type |-> t, title |-> "t"]
        @@ [f \in fs |-> "http://example.org/" \o f] :
     t \in PostTypes, fs \in SUBSET UriFields}

\* try { rdf.namedNode(value) } catch: the quad with the named node, or what
\* the catch block gives
createPostData(postData, rejected) ==
    LET subject == NamedNode(postData.customId)
        postType == IF Has(postData, "type") THEN postData.type ELSE "entry"
        Present(f) == Has(postData, f)
        Throws(f) == Present(f) /\ f \in rejected
        NodeQuad(ns, p, f) ==
            IF Present(f) THEN {Quad(subject, NamedNode(Ns(ns, p)), NamedNode(postData[f]))}
            ELSE {}
        base == {Quad(subject, rdf_type, NamedNode(Ns(SQUIRT, postType))),
                 Quad(subject, dc_created, Literal(generateDate(clock), xsd_dateTime))}
                \cup (IF Has(postData, "title") /\ postData.title # ""
                      THEN {Quad(subject, dc_title, PlainLiteral(postData.title))}
                      ELSE {})
        link == IF postType = "link" THEN NodeQuad(SQUIRT, "url", "url") ELSE {}
        profile == IF postType = "profile"
                   THEN NodeQuad(FOAF, "mbox", "foafMbox")
                        \cup NodeQuad(FOAF, "homepage", "foafHomepage")
                        \cup NodeQuad(FOAF, "img", "foafImg")
                   ELSE {}
        custom == IF Present("source")
                  THEN {Quad(subject, NamedNode(Ns(SQUIRT, "source")),
                             IF "source" \in rejected
                             THEN PlainLiteral(postData.source)
                             ELSE NamedNode(postData.source))}
                  ELSE {}
        thrown == \/ postType = "link" /\ Throws("url")
                  \/ postType = "profile"
                     /\ (Throws("foafMbox") \/ Throws("foafHomepage") \/ Throws("foafImg"))
    IN  IF thrown THEN [threw |-> TRUE, error |-> "RDFError"]
        ELSE [threw |-> FALSE, id |-> postData.customId,
              dataset |-> base \cup link \cup profile \cup custom]

\* a post is about to be projected
InitPost ==
    /\ nodes = <<>> /\ rootId = Null /\ rdfDataset = {} /\ clock = 1
    /\ inFlight = <<>>
    /\ subscribers = <<>>
    /\ kind = "TrestleModel"
    /\ \E postData \in PostData, rejected \in SUBSET UriFields :
          /\ rejected \subseteq DOMAIN postData
          /\ last = [op |-> "postData", postData |-> postData, rejected |-> rejected]

CreatePostData ==
    /\ last.op = "postData"
    /\ last' = [op |-> "createPostData", postData |-> last.postData,
                rejected |-> last.rejected,
                result |-> createPostData(last.postData, last.rejected)]
    /\ UNCHANGED <<nodes, rootId, rdfDataset, clock, kind, inFlight, subscribers>>

\* a variant of the index handleAddSibling passes to addNode: the position
\* of the reference node itself
SiblingIndex_before(siblingIndex) == siblingIndex

\* the index handleAddSibling passes to addNode
SiblingIndex(siblingIndex) == siblingIndex + 1

\* TrestleController.handleAddSibling({nodeId}): returns early when the node,
\* its parent or its place in the parent's list is not found, otherwise adds
\* a node with the empty title after it and publishes node:added
HandleAddSibling(nodeId) ==
    LET found == /\ nodeId \in DOMAIN nodes
                 /\ Has(nodes[nodeId], "parent")
                 /\ nodes[nodeId].parent \in DOMAIN nodes
        parentId == nodes[nodeId].parent
        noList == found /\ ~Has(nodes[parentId], "children")
        siblingIndex == IndexOf(nodes[parentId].children, nodeId)
    IN  IF ~found \/ noList \/ siblingIndex = -1
        THEN /\ last' = Call("handleAddSibling", nodeId, noList)
                        @@ [published |-> <<>>]
             /\ UNCHANGED <<nodes, rootId, rdfDataset, clock, kind, inFlight, subscribers>>
        ELSE /\ \E r \in Rand :
                   LET id == generateNodeId("nid", clock, r)
                       ns == addNodeNodes(nodes, parentId, "",
                                          Some(SiblingIndex(siblingIndex)), id, clock)
                   IN  /\ nodes' = ns
                       /\ rdfDataset' = IF IsRDF
                                         THEN addNodeToRDF(rdfDataset, ns[id], clock)
                                         ELSE rdfDataset
                       /\ last' = Call("handleAddSibling", nodeId, FALSE)
                                  @@ [published |->
                                         <<[event |-> "node:added", node |-> ns[id],
                                            parentId |-> parentId]>>]
             /\ clock' = clock + 1
             /\ UNCHANGED <<rootId, kind, inFlight, subscribers>>

\* The model's methods as the controller calls them: the node table and the
\* dataset a call leaves, and whether it threw.
deleteNodeCall(ns, ds, nodeId) ==
    LET d == getAllDescendantIds(ns, nodeId, {})
        r == deleteNodeNodes(ns, nodeId)
    IN  IF IsRDF /\ d.threw
        THEN [nodes |-> ns, rdfDataset |-> ds, threw |-> TRUE]
        ELSE [nodes |-> r.nodes,
              rdfDataset |-> IF IsRDF
                             THEN RemoveAllFromRDF(ds, Append(d.ids, nodeId), 1)
                             ELSE ds,
              threw |-> r.threw]

\* updateNode and moveNode of either class at the time `now` of the system
\* clock
updateNodeAt(ns, ds, nodeId, properties, now) ==
    LET ns1 == updateNodeNodes(ns, nodeId, properties)
    IN  [nodes |-> ns1,
         rdfDataset |-> IF IsRDF THEN updateNodeRDF(ds, ns1, nodeId, now) ELSE ds,
         threw |-> FALSE]

moveNodeAt(ns, ds, nodeId, newParentId, newIndex, now) ==
    LET ns1 == moveNodeNodes(ns, nodeId, newParentId, newIndex)
    IN  [nodes |-> ns1,
         rdfDataset |-> IF IsRDF
                        THEN moveNodeRDF(ds, ns1, nodeId, newParentId, now)
                        ELSE ds,
         threw |-> FALSE]

updateNodeCall(ns, ds, nodeId, properties) ==
    updateNodeAt(ns, ds, nodeId, properties, clock)

moveNodeCall(ns, ds, nodeId, newParentId, newIndex) ==
    moveNodeAt(ns, ds, nodeId, newParentId, newIndex, clock)

\* what a handler leaves: the store after its calls and the events it
\* published; `last` also keeps the table as it was before and whether the
\* call before this one was a handleIndentNode that moved the same node
Handled(op, nodeId, store, published) ==
    /\ nodes' = store.nodes
    /\ rdfDataset' = store.rdfDataset
    /\ last' = Call(op, nodeId, store.threw)
               @@ [published |-> published, prev |-> nodes,
                   afterIndent |-> /\ last.op = "handleIndentNode"
                                   /\ last.nodeId = nodeId
                                   /\ last.published # <<>>]
    /\ UNCHANGED <<rootId, clock, kind, inFlight, subscribers>>

Untouched == [nodes |-> nodes, rdfDataset |-> rdfDataset, threw |-> FALSE]

\* node.parent is truthy
HasParent(ns, nodeId) ==
    nodeId \in DOMAIN ns /\ Has(ns[nodeId], "parent") /\ ns[nodeId].parent # ""

\* TrestleController.handleAddChild({parentId})
HandleAddChild(parentId) ==
    IF parentId \notin DOMAIN nodes
    THEN Handled("handleAddChild", parentId, Untouched, <<>>)
    ELSE /\ \E r \in Rand :
               LET id == generateNodeId("nid", clock, r)
                   childIndex == Len(ChildrenOf(nodes, parentId))
                   ns == addNodeNodes(nodes, parentId, "", Some(childIndex), id, clock)
               IN  /\ nodes' = ns
                   /\ rdfDataset' = IF IsRDF
                                     THEN addNodeToRDF(rdfDataset, ns[id], clock)
                                     ELSE rdfDataset
                   /\ last' = Call("handleAddChild", parentId, FALSE)
                              @@ [published |->
                                     <<[event |-> "node:added", node |-> ns[id],
                                        parentId |-> parentId]>>,
                                  prev |-> nodes]
         /\ clock' = clock + 1
         /\ UNCHANGED <<rootId, kind, inFlight, subscribers>>

\* a variant of the index handleOutdentNode passes to moveNode: one place
\* further down the grandparent's list
OutdentIndex_skipsOne(parentIndex) == parentIndex + 2

\* a variant of the index handleIndentNode passes to moveNode: the front of
\* the new parent's list
IndentIndex_front(newParent) == 0

\* the index handleIndentNode passes to moveNode
IndentIndex(newParent) ==
    IF Has(newParent, "children") THEN Len(newParent.children) ELSE 0

\* TrestleController.handleIndentNode({nodeId})
HandleIndentNode(nodeId) ==
    LET found == /\ HasParent(nodes, nodeId)
                 /\ nodes[nodeId].parent \in DOMAIN nodes
                 /\ Has(nodes[nodes[nodeId].parent], "children")
        parent == nodes[nodes[nodeId].parent]
        index == IndexOf(parent.children, nodeId)
        newParentId == parent.children[index]       \* children[index - 1]
    IN  IF ~found \/ index <= 0 \/ newParentId \notin DOMAIN nodes
        THEN Handled("handleIndentNode", nodeId, Untouched, <<>>)
        ELSE Handled("handleIndentNode", nodeId,
                     moveNodeCall(nodes, rdfDataset, nodeId, newParentId,
                                  Some(IndentIndex(nodes[newParentId]))),
                     <<[event |-> "view:nodeIndented", nodeId |-> nodeId,
                        newParentId |-> newParentId]>>)

\* a variant of the index handleOutdentNode passes to moveNode: the position
\* of the former parent
OutdentIndex_before(parentIndex) == parentIndex

\* the index handleOutdentNode passes to moveNode
OutdentIndex(parentIndex) == parentIndex + 1

\* TrestleController.handleOutdentNode({nodeId}); grandparent.children is
\* read without a check
HandleOutdentNode(nodeId) ==
    LET found == /\ HasParent(nodes, nodeId)
                 /\ HasParent(nodes, nodes[nodeId].parent)
                 /\ nodes[nodes[nodeId].parent].parent \in DOMAIN nodes
        parent == nodes[nodes[nodeId].parent]
        grandparentId == parent.parent
        noList == found /\ ~Has(nodes[grandparentId], "children")
        parentIndex == IndexOf(nodes[grandparentId].children, parent.id)
    IN  IF ~found THEN Handled("handleOutdentNode", nodeId, Untouched, <<>>)
        ELSE IF noList
        THEN Handled("handleOutdentNode", nodeId,
                     [Untouched EXCEPT !.threw = TRUE], <<>>)
        ELSE IF parentIndex = -1
        THEN Handled("handleOutdentNode", nodeId, Untouched, <<>>)
        ELSE Handled("handleOutdentNode", nodeId,
                     moveNodeCall(nodes, rdfDataset, nodeId, grandparentId,
                                  Some(OutdentIndex(parentIndex))),
                     <<[event |-> "view:nodeOutdented", nodeId |-> nodeId,
                        newParentId |-> grandparentId]>>)

\* the parent id the view sends for an item directly under its root list
TrestleRoot == "trestle-root"

\* handleMoveNode: the data of view:moveNode goes to moveNode as it is, and
\* nothing is published
HandleMoveNode(nodeId, newParentId, newIndex) ==
    Handled("handleMoveNode", nodeId,
            moveNodeCall(nodes, rdfDataset, nodeId, newParentId, newIndex),
            <<>>)

\* moveNodeUp and moveNodeDown of the view on an item of the root list, which
\* shows the root's children: view:moveNode with TrestleRoot and the index
\* of the neighbour
ViewMoveTopLevel(nodeId, step) ==
    LET children == ChildrenOf(nodes, rootId)
        currentIndex == IndexOf(children, nodeId)
        newIndex == currentIndex + step
    IN  /\ currentIndex # -1
        /\ newIndex \in 0..(Len(children) - 1)
        /\ HandleMoveNode(nodeId, TrestleRoot, Some(newIndex))

\* the store after model.updateNode and, unless that threw, after the
\* model's own handler of node:updated has called updateNode once more; what
\* the second call throws is caught by publish
HandleUpdateNode(nodeId, properties) ==
    LET first == updateNodeCall(nodes, rdfDataset, nodeId, properties)
        again == updateNodeCall(first.nodes, first.rdfDataset, nodeId, properties)
    IN  IF first.threw
        THEN Handled("handleUpdateNode", nodeId, first, <<>>)
        ELSE Handled("handleUpdateNode", nodeId, [again EXCEPT !.threw = FALSE],
                     <<[event |-> "node:updated", nodeId |-> nodeId,
                        properties |-> properties]>>)

\* a variant of handleDeleteNode that takes the node out of its parent's list
\* and out of the table and leaves its descendants where they are
HandleDeleteNode_keepsChildren(nodeId) ==
    Handled("handleDeleteNode", nodeId,
            [Untouched EXCEPT !.nodes = IF nodeId \in DOMAIN nodes
                                        THEN RemoveFromParentAndMap(nodes, nodeId)
                                        ELSE nodes],
            <<[event |-> "node:deleted", nodeId |-> nodeId]>>)

\* the store after model.deleteNode and, unless that threw, after the
\* model's own handler of node:deleted has called deleteNode once more
HandleDeleteNode(nodeId) ==
    LET first == deleteNodeCall(nodes, rdfDataset, nodeId)
        again == deleteNodeCall(first.nodes, first.rdfDataset, nodeId)
    IN  IF first.threw
        THEN Handled("handleDeleteNode", nodeId, first, <<>>)
        ELSE Handled("handleDeleteNode", nodeId, [again EXCEPT !.threw = FALSE],
                     <<[event |-> "node:deleted", nodeId |-> nodeId]>>)

\* how the load of initialize() ends: fetch rejects, the response is not
\* ok, the body has no results.bindings, a binding lacks node or type, or
\* the rows are processed
LoadOutcomes == {"rejected", "notOk", "noBindings", "badBinding", "ok"}

\* a variant of loadData in which the rows before a binding that cannot be
\* read are kept in the node table
loadData_keepsRows(ns, rid, outcome, bindings) ==
    CASE outcome \in {"rejected", "notOk"} ->
             [nodes |-> ns, rootId |-> rid, threw |-> TRUE]
      [] outcome = "noBindings" ->
             [nodes |-> <<>>, rootId |-> Null, threw |-> TRUE]
      [] outcome = "badBinding" ->
             processLoadedData(bindings) @@ [threw |-> TRUE]
      [] OTHER -> processLoadedData(bindings) @@ [threw |-> FALSE]

\* loadData: the node table and rootId it leaves and whether it throws.
\* processLoadedData clears the table and rootId before it reads the
\* bindings into a map of its own, which it assigns only at its end.
loadData(ns, rid, outcome, bindings) ==
    CASE outcome \in {"rejected", "notOk"} ->
             [nodes |-> ns, rootId |-> rid, threw |-> TRUE]
      [] outcome \in {"noBindings", "badBinding"} ->
             [nodes |-> <<>>, rootId |-> Null, threw |-> TRUE]
      [] OTHER -> processLoadedData(bindings) @@ [threw |-> FALSE]

\* initialize() on the new model: loadData, and createEmptyModel when it
\* throws; TrestleRDFModel.initialize then builds the dataset from the table.
\* With "badBinding" the binding that cannot be read follows `bindings`.
Initialize(outcome, bindings) ==
    LET l == loadData(nodes, rootId, outcome, bindings)
    IN  /\ last.op = "new"
        /\ \E r \in Rand :
              LET id == IF l.threw THEN generateNodeId("root", clock, r)
                        ELSE l.rootId
                  ns == IF l.threw THEN createEmptyModelNodes(l.nodes, id)
                        ELSE l.nodes
              IN  /\ nodes' = ns
                  /\ rootId' = id
                  /\ rdfDataset' = IF IsRDF THEN buildRDFDataset(ns, clock)
                                   ELSE rdfDataset
                  /\ last' = [Call("initialize", id, FALSE) EXCEPT
                                 !.tree = TreeShaped(ns)]
                             @@ [outcome |-> outcome, rows |-> bindings,
                                 published |-> IF l.threw THEN <<"model:created">>
                                               ELSE <<"model:loaded">>]
        /\ clock' = IF l.threw THEN clock + 1 ELSE clock
        /\ UNCHANGED <<kind, inFlight, subscribers>>

\* EventBus (src/src/js/utils/EventBus.js).  A callback is named by a string;
\* the array of an event is the sequence subscribers[event].

Events == {"node:updated", "node:deleted"}
Callbacks == {"f", "g", "h"}

\* new EventBus()
InitBus ==
    /\ nodes = <<>> /\ rootId = Null /\ rdfDataset = {} /\ clock = 1
    /\ inFlight = <<>>
    /\ kind = "TrestleModel"
    /\ subscribers = <<>>
    /\ last = [op |-> "new EventBus"]

\* subscribe: the array of the event is made when there is none, and the
\* callback is pushed
subscribe(subs, event, callback) ==
    LET subs1 == IF Has(subs, event) THEN subs ELSE Put(subs, event, <<>>)
    IN  [subs1 EXCEPT ![event] = Append(@, callback)]

\* the function subscribe returns: the first occurrence of the callback is
\* spliced out of the array of the event
unsubscribe(subs, event, callback) ==
    LET index == IndexOf(subs[event], callback)
    IN  IF index # -1 THEN [subs EXCEPT ![event] = SpliceRemove(@, index)]
        ELSE subs

\* what a callback does when it is called in a delivery: it returns, it
\* throws, or it calls the unsubscribe function of a callback and returns
Behaviours == {"returns", "throws"} \cup Callbacks

\* callbacks.forEach over the array itself: the indices below the length at
\* the start are visited and those the array no longer has are skipped.
\* With `caught`, what a callback throws is logged and the loop goes on.
RECURSIVE forEachCallback(_, _, _, _, _, _, _)
forEachCallback(subs, event, k, len, does, calls, caught) ==
    IF k >= len \/ k >= Len(subs[event])
    THEN [subscribers |-> subs, calls |-> calls, threw |-> FALSE]
    ELSE LET callback == subs[event][k + 1]
             act == does[callback]
             subs1 == IF act \in Callbacks THEN unsubscribe(subs, event, act)
                      ELSE subs
         IN  IF act = "throws" /\ ~caught
             THEN [subscribers |-> subs1, calls |-> Append(calls, callback),
                   threw |-> TRUE]
             ELSE forEachCallback(subs1, event, k + 1, len, does,
                                  Append(calls, callback), caught)

\* a variant of publish without the try/catch around the callback
publish_uncaught(subs, event, does) ==
    IF ~Has(subs, event)
    THEN [subscribers |-> subs, calls |-> <<>>, threw |-> FALSE]
    ELSE forEachCallback(subs, event, 0, Len(subs[event]), does, <<>>, FALSE)

\* publish: the array the bus holds after the delivery, the callbacks called
\* in the order of the calls, and whether publish threw
publish(subs, event, does) ==
    IF ~Has(subs, event)
    THEN [subscribers |-> subs, calls |-> <<>>, threw |-> FALSE]
    ELSE forEachCallback(subs, event, 0, Len(subs[event]), does, <<>>, TRUE)

\* the callbacks subscribed to an event, as the array holds them
Subscribed(subs, event) == IF Has(subs, event) THEN subs[event] ELSE <<>>

Subscribe(event, callback) ==
    /\ subscribers' = subscribe(subscribers, event, callback)
    /\ last' = [op |-> "subscribe", event |-> event, callback |-> callback]
    /\ UNCHANGED <<nodes, rootId, rdfDataset, clock, kind, inFlight>>

\* the function that subscribe has returned for a callback the array holds
\* is called outside a delivery
Unsubscribe(event, callback) ==
    /\ callback \in Range(Subscribed(subscribers, event))
    /\ subscribers' = unsubscribe(subscribers, event, callback)
    /\ last' = [op |-> "unsubscribe", event |-> event, callback |-> callback]
    /\ UNCHANGED <<nodes, rootId, rdfDataset, clock, kind, inFlight>>

\* publish(event) with what each callback of the array does in this
\* delivery; the unsubscribe functions called are those of callbacks the
\* array holds when publish begins
Publish(event, does) ==
    LET r == publish(subscribers, event, does)
        held == Range(Subscribed(subscribers, event))
    IN  /\ \A c \in Callbacks :
              /\ c \notin held => does[c] = "returns"
              /\ does[c] \in Callbacks => does[c] \in held
        /\ subscribers' = r.subscribers
        /\ last' = [op |-> "publish", event |-> event, does |-> does,
                    subscribed |-> Subscribed(subscribers, event),
                    calls |-> r.calls, threw |-> r.threw]
        /\ UNCHANGED <<nodes, rootId, rdfDataset, clock, kind, inFlight>>

\* the request of loadData while it is awaited
LoadRequest == [request |-> "load"]

\* controller.initialize(): model.initialize() runs up to the await of fetch
\* in loadData and is not awaited, so other calls run before the load ends
StartInitialize ==
    /\ last.op = "new"
    /\ inFlight' = <<LoadRequest>>
    /\ last' = Call("initialize", Null, FALSE)
    /\ UNCHANGED <<nodes, rootId, rdfDataset, clock, kind, subscribers>>

\* the load settles and initialize() resumes on the store as it is by then:
\* loadData, createEmptyModel when it throws, and buildRDFDataset in
\* TrestleRDFModel.initialize
SettleLoad(outcome, bindings) ==
    LET l == loadData(nodes, rootId, outcome, bindings)
    IN  /\ inFlight = <<LoadRequest>>
        /\ \E r \in Rand :
              LET id == IF l.threw THEN generateNodeId("root", clock, r)
                        ELSE l.rootId
                  ns == IF l.threw THEN createEmptyModelNodes(l.nodes, id)
                        ELSE l.nodes
              IN  /\ nodes' = ns
                  /\ rootId' = id
                  /\ rdfDataset' = IF IsRDF THEN buildRDFDataset(ns, clock)
                                   ELSE rdfDataset
                  /\ last' = [Call("initialize settled", id, FALSE) EXCEPT
                                 !.tree = TreeShaped(ns)]
                             @@ [outcome |-> outcome, rows |-> bindings,
                                 prev |-> nodes]
        /\ clock' = IF l.threw THEN clock + 1 ELSE clock
        /\ inFlight' = <<>>
        /\ UNCHANGED <<kind, subscribers>>

----------------------------------------------------------------------------
(* Specifications *)

\* at most b ids are generated
Within(b) == clock' <= b + 1

\* no children list grows beyond MaxChildren
ShortLists ==
    \A n \in DOMAIN nodes' :
        Has(nodes'[n], "children") => Len(nodes'[n].children) <= MaxChildren

NextEdit ==
    \/ \E p \in IdArgs, t \in Titles, i \in IndexArgs : AddNode(p, t, i)
    \/ \E n \in IdArgs, p \in IdArgs, i \in IndexArgs : MoveNode(n, p, i)
    \/ \E n \in IdArgs : DeleteNode(n)

NextUpdate ==
    \/ \E n \in IdArgs, props \in PropertiesArgs : UpdateNode(n, props)
    \/ \E n \in IdArgs, d \in DescriptionArgs : UpdateNodeDescription(n, d)

Next ==
    \/ CreateEmptyModel
    \/ NextEdit
    \/ NextUpdate

\* addNode, moveNode and deleteNode with the index either omitted or 0
NextEditFront ==
    \/ \E p \in IdArgs, t \in Titles, i \in {None, Some(0)} : AddNode(p, t, i)
    \/ \E n \in IdArgs, p \in IdArgs, i \in {None, Some(0)} : MoveNode(n, p, i)
    \/ \E n \in IdArgs : DeleteNode(n)

\* every call, on either class, from the constructor on
Spec == Init /\ [][Next /\ Within(MaxClockUpdate) /\ ShortLists]_vars

\* createEmptyModel, addNode, moveNode and deleteNode on a TrestleModel, from
\* the constructor on
SpecCreate ==
    /\ Init /\ kind = "TrestleModel"
    /\ [][(CreateEmptyModel \/ NextEdit) /\ Within(MaxClock)]_vars

\* addNode, moveNode and deleteNode on a TrestleModel that has its root
SpecEdit ==
    InitReady /\ kind = "TrestleModel" /\ [][NextEdit /\ Within(MaxClock)]_vars

\* addNode, moveNode and deleteNode on a TrestleRDFModel that has its root
SpecEditRDF ==
    /\ InitReady /\ kind = "TrestleRDFModel"
    /\ [][NextEditFront /\ Within(MaxClock)]_vars

\* addNode, moveNode, deleteNode and updateNode on a TrestleModel that has
\* its root
SpecUpdate ==
    /\ InitReady /\ kind = "TrestleModel"
    /\ [][/\ \/ NextEditFront
             \/ \E n \in IdArgs, props \in PropertiesArgs : UpdateNode(n, props)
          /\ Within(MaxClockUpdate)
          /\ ShortLists]_vars

\* addNode at the end of a list, updateNode of the title,
\* updateNodeDescription and deleteNode
NextAppendUpdate ==
    \/ \E p \in IdArgs, t \in Titles : AddNode(p, t, None)
    \/ \E n \in IdArgs : UpdateNode(n, [title |-> "b"])
    \/ \E n \in IdArgs, d \in DescriptionArgs : UpdateNodeDescription(n, d)
    \/ \E n \in IdArgs : DeleteNode(n)

\* these calls on a TrestleRDFModel that has its root
SpecUpdateRDF ==
    /\ InitReady /\ kind = "TrestleRDFModel"
    /\ [][NextAppendUpdate /\ Within(MaxClockUpdate)]_vars

\* addNode under a node of the store, moveNode of a node of the store to a
\* node of the store outside its subtree, deleteNode of a node of the store
NextTree ==
    \/ \E p \in DOMAIN nodes, t \in Titles, i \in IndexArgs : AddNode(p, t, i)
    \/ \E n \in DOMAIN nodes, p \in DOMAIN nodes, i \in IndexArgs :
          p \notin Subtree(nodes, n) /\ MoveNode(n, p, i)
    \/ \E n \in DOMAIN nodes : DeleteNode(n)

\* a TrestleModel that has its root, kept tree-shaped by its callers
SpecTree ==
    InitReady /\ kind = "TrestleModel" /\ [][NextTree /\ Within(MaxClockTree)]_vars

\* the calls of NextTree with either title, and a save followed by a load
NextSaveLoad ==
    \/ \E p \in DOMAIN nodes, t \in TitleArgs, i \in IndexArgs : AddNode(p, t, i)
    \/ \E n \in DOMAIN nodes, p \in DOMAIN nodes, i \in IndexArgs :
          p \notin Subtree(nodes, n) /\ MoveNode(n, p, i)
    \/ \E n \in DOMAIN nodes : DeleteNode(n)
    \/ SaveAndLoad

SpecSaveLoad ==
    /\ InitReady /\ kind = "TrestleModel"
    /\ [][NextSaveLoad /\ Within(MaxClockSave)]_vars

\* a new TrestleModel whose initialize() loads some rows
SpecLoad ==
    /\ Init /\ kind = "TrestleModel"
    /\ [][last.op = "new" /\ \E bindings \in RowLists(MaxRows) : LoadData(bindings)]_vars

\* the calls of NextAppendUpdate and saveData, on either class
SpecSave ==
    /\ InitReady
    /\ [][/\ \/ NextAppendUpdate
             \/ \E outcome \in FetchOutcomes : SaveData(outcome)
          /\ Within(MaxClockUpdate)]_vars

\* initialize() on a new model of either class, for every way the load ends
SpecInitialize ==
    /\ Init
    /\ [][/\ last.op = "new"
          /\ \E outcome \in LoadOutcomes, bindings \in RowLists(MaxRowsInit) :
                (outcome \in {"rejected", "notOk", "noBindings"} => bindings = <<>>)
                /\ Initialize(outcome, bindings)]_vars

\* createEmptyModel and addNode on a TrestleModel, several of them within
\* one millisecond
SpecSameMs ==
    /\ Init /\ kind = "TrestleModel"
    /\ [][/\ \/ Tick
             \/ \E r \in RandArgs : CreateEmptyModelInMs(r)
             \/ \E p \in DOMAIN nodes, t \in Titles, r \in RandArgs :
                   AddNodeInMs(p, t, None, r)
          /\ clock' <= MaxClockUpdate
          /\ Cardinality(DOMAIN nodes') <= MaxNodes
          /\ ShortLists]_vars

\* edits of a TrestleModel while saves are started and their requests settle
SpecSaves ==
    /\ InitReady /\ kind = "TrestleModel"
    /\ [][/\ \/ \E p \in DOMAIN nodes, t \in TitleArgs : AddNode(p, t, None)
             \/ \E n \in DOMAIN nodes : DeleteNode(n)
             \/ StartSave
             \/ \E i \in 1..MaxInFlight, outcome \in FetchOutcomes :
                   SettleSave(i, outcome)
          /\ Within(MaxClock)
          /\ Len(inFlight') <= MaxInFlight]_vars

\* createPostData on every post of PostData
SpecPost == InitPost /\ [][CreatePostData]_vars

\* addNode under any id, moveNode and deleteNode that keep the tree shape,
\* and handleAddSibling for any id, on a model of either class
SpecSibling ==
    /\ InitReady
    /\ [][/\ \/ \E p \in IdArgs, t \in Titles : AddNode(p, t, None)
             \/ \E n \in DOMAIN nodes, p \in DOMAIN nodes :
                   p \notin Subtree(nodes, n) /\ MoveNode(n, p, Some(0))
             \/ \E n \in DOMAIN nodes : DeleteNode(n)
             \/ \E n \in IdArgs : HandleAddSibling(n)
          /\ Within(MaxClockSibling)]_vars

\* the controller's handlers that add, indent and outdent, for any id, on a
\* TrestleModel that has its root
SpecIndent ==
    /\ InitReady /\ kind = "TrestleModel"
    /\ [][/\ \/ \E p \in IdArgs : HandleAddChild(p)
             \/ \E n \in IdArgs : HandleAddSibling(n)
             \/ \E n \in IdArgs : HandleIndentNode(n)
             \/ \E n \in IdArgs : HandleOutdentNode(n)
          /\ Within(MaxClockTree)]_vars

\* items added under any node and top-level items moved up and down by the
\* view, on a TrestleModel that has its root
SpecViewMove ==
    /\ InitReady /\ kind = "TrestleModel"
    /\ [][/\ \/ \E p \in DOMAIN nodes : HandleAddChild(p)
             \/ \E n \in DOMAIN nodes, step \in {-1, 1} : ViewMoveTopLevel(n, step)
          /\ Within(MaxClockTree)]_vars

\* initialize() on a new model of either class, with createEmptyModel and
\* addNode called while its load is awaited
SpecLoadRace ==
    /\ Init
    /\ [][\/ StartInitialize
          \/ /\ inFlight = <<LoadRequest>>
             /\ \/ CreateEmptyModel
                \/ \E p \in IdArgs, t \in Titles : AddNode(p, t, None)
             /\ Within(MaxClockUpdate)
          \/ \E outcome \in LoadOutcomes, bindings \in RowLists(MaxRowsRace) :
                (outcome \in {"rejected", "notOk", "noBindings"} => bindings = <<>>)
                /\ SettleLoad(outcome, bindings)]_vars

\* the controller's handlers that add, indent, outdent, retitle and delete,
\* for any id but never deleting the root, on a model of either class
SpecHandlers ==
    /\ InitReady
    /\ [][/\ \/ \E p \in IdArgs : HandleAddChild(p)
             \/ \E n \in IdArgs : HandleAddSibling(n)
             \/ \E n \in IdArgs : HandleIndentNode(n)
             \/ \E n \in IdArgs : HandleOutdentNode(n)
             \/ \E n \in IdArgs : HandleUpdateNode(n, [title |-> "b"])
             \/ \E n \in IdArgs \ {rootId} : HandleDeleteNode(n)
          /\ Within(MaxClockSibling)]_vars

\* the subscriptions of all events together
Subscriptions(subs) ==
    LET RECURSIVE Sum(_)
        Sum(es) == IF es = {} THEN 0
                   ELSE LET e == CHOOSE x \in es : TRUE
                        IN  Len(subs[e]) + Sum(es \ {e})
    IN  Sum(DOMAIN subs)

\* subscribe, unsubscribe and publish on a new EventBus, with at most
\* MaxSubscriptions callbacks subscribed at a time
SpecBus ==
    /\ InitBus
    /\ [][/\ \/ \E event \in Events, callback \in Callbacks :
                   Subscribe(event, callback)
             \/ \E event \in Events, callback \in Callbacks :
                   Unsubscribe(event, callback)
             \/ \E event \in Events, does \in [Callbacks -> Behaviours] :
                   Publish(event, does)
          /\ Subscriptions(subscribers') <= MaxSubscriptions]_vars

\* escapeTurtle on every text of up to MaxLen characters
SpecEscape == InitText /\ [][EscapeTurtle]_vars

----------------------------------------------------------------------------
(* Claims *)

\* C1: after any sequence of addNode, moveNode and deleteNode calls, the
\* node at position i of any children list is in the store and its index
\* field is i.
C1_IndexMatchesPosition ==
    \A p \in DOMAIN nodes :
        \A i \in 1..Len(ChildrenOf(nodes, p)) :
            LET c == ChildrenOf(nodes, p)[i]
            IN  /\ c \in DOMAIN nodes
                /\ Has(nodes[c], "index")
                /\ nodes[c].index = i - 1

\* a moveNode has put its node in front of a sibling under the root, whose
\* index had to shift
C1_Witness ==
    /\ last.op = "moveNode"
    /\ last.tree
    /\ rootId \in DOMAIN nodes
    /\ Len(ChildrenOf(nodes, rootId)) = 2
    /\ ChildrenOf(nodes, rootId)[1] = last.nodeId
    /\ ChildrenOf(nodes, rootId)[2] # last.nodeId
    /\ nodes[last.nodeId].type = "Node"
    /\ TreeShaped(nodes)

\* C2: every node whose parent field is set has that parent in the store
\* and stands in the parent's children list at the position of its index.
C2_ParentListsChild ==
    \A n \in DOMAIN nodes :
        Has(nodes[n], "parent") =>
            /\ nodes[n].parent \in DOMAIN nodes
            /\ Has(nodes[n], "index")
            /\ nodes[n].index + 1 \in 1..Len(ChildrenOf(nodes, nodes[n].parent))
            /\ ChildrenOf(nodes, nodes[n].parent)[nodes[n].index + 1] = n

\* C3: no node is its own transitive ancestor.
C3_NoNodeIsItsOwnAncestor == Acyclic(nodes)

\* the quads the predicate table gives for a node: one per field it has
TableQuads(node) ==
    LET s == Subject(node.id)
    IN  (IF Has(node, "type")
         THEN {Quad(s, rdf_type, NamedNode(Ns(TS, node.type)))} ELSE {})
        \cup (IF Has(node, "title")
              THEN {Quad(s, dc_title, PlainLiteral(node.title))} ELSE {})
        \cup (IF Has(node, "created")
              THEN {Quad(s, dc_created, Literal(node.created, xsd_dateTime))} ELSE {})
        \cup (IF Has(node, "description")
              THEN {Quad(s, ts_description, PlainLiteral(node.description))} ELSE {})
        \cup (IF Has(node, "parent")
              THEN {Quad(s, ts_parent, Subject(node.parent))} ELSE {})
        \cup (IF Has(node, "index")
              THEN {Quad(s, ts_index, PlainLiteral(ToString(node.index)))} ELSE {})

\* C4: after every addNode, updateNode, updateNodeDescription, moveNode and
\* deleteNode on a TrestleRDFModel, for every node of the store the quads of
\* rdfDataset with the node's URI as subject are exactly the quads the
\* predicate table gives for its current fields.
C4_ProjectionExact ==
    (/\ IsRDF
     /\ last.op \in {"addNode", "updateNode", "updateNodeDescription",
                     "moveNode", "deleteNode"})
    => \A n \in DOMAIN nodes :
           MatchSubject(rdfDataset, n) = TableQuads(nodes[n])

\* C5: exactly one node has type RootNode, it is the node getRootNode()
\* returns, and it has no parent field.
C5_ExactlyOneRoot ==
    /\ Cardinality({n \in DOMAIN nodes :
                       Has(nodes[n], "type") /\ nodes[n].type = "RootNode"}) = 1
    /\ \E root \in getRootNode(nodes, rootId) :
          /\ root.type = "RootNode"
          /\ ~Has(root, "parent")

\* C6: deleteNode(n) on a tree-shaped store removes from the node table
\* exactly n and its descendants (N + 1 entries when n has N descendants),
\* and n is no longer in the children list of its former parent.
C6_DeleteRemovesExactlySubtree ==
    [][(/\ last'.op = "deleteNode"
        /\ last'.nodeId \in DOMAIN nodes
        /\ TreeShaped(nodes))
       => LET n == last'.nodeId
              N == Cardinality(Descendants(nodes, n, Cardinality(DOMAIN nodes)))
          IN  /\ ~last'.threw
              /\ DOMAIN nodes' = DOMAIN nodes \ Subtree(nodes, n)
              /\ Cardinality(DOMAIN nodes) - Cardinality(DOMAIN nodes') = N + 1
              /\ \A m \in DOMAIN nodes' : nodes'[m].id = nodes[m].id
              /\ Has(nodes[n], "parent") =>
                    n \notin Range(ChildrenOf(nodes', nodes[n].parent))]_vars

\* a deleteNode on a tree-shaped store has removed a node together with at
\* least one descendant and left a tree-shaped store that still has its root
C6_Witness ==
    /\ last.op = "deleteNode"
    /\ last.tree
    /\ ~last.threw
    /\ last.before - Cardinality(DOMAIN nodes) >= 2
    /\ rootId \in DOMAIN nodes
    /\ last.nodeId \notin DOMAIN nodes
    /\ DOMAIN nodes # {}
    /\ TreeShaped(nodes)

\* C7: after TrestleRDFModel.deleteNode(n), no quad has the URI of n or of a
\* node deleted in the cascade as subject or object, and every quad of a
\* surviving subject whose object is none of these URIs is still there.
C7_DeleteClearsQuads ==
    [][(IsRDF /\ last'.op = "deleteNode")
       => LET gone == {last'.nodeId} \cup (DOMAIN nodes \ DOMAIN nodes')
              goneTerms == {Subject(g) : g \in gone}
              survivors == {Subject(m) : m \in DOMAIN nodes' \ gone}
          IN  /\ \A q \in rdfDataset' :
                    q[1] \notin goneTerms /\ q[3] \notin goneTerms
              /\ \A q \in rdfDataset :
                    (q[1] \in survivors /\ q[3] \notin goneTerms)
                        => q \in rdfDataset']_vars

\* C8: no children list holds an id twice, and every id in it is a node of
\* the store whose parent field is the owner of the list.
C8_ChildrenWellFormed ==
    \A p \in DOMAIN nodes :
        /\ NoDuplicates(ChildrenOf(nodes, p))
        /\ \A c \in Range(ChildrenOf(nodes, p)) :
              /\ c \in DOMAIN nodes
              /\ Has(nodes[c], "parent")
              /\ nodes[c].parent = p

\* C9: addNode with a parentId that is not in the store registers no node
\* and adds no quad.
C9_AddToUnknownParentFails ==
    [][(\E p \in IdArgs \ DOMAIN nodes, t \in Titles, i \in IndexArgs :
            AddNode(p, t, i))
       => (nodes' = nodes /\ rdfDataset' = rdfDataset)]_vars

\* C10: createEmptyModel on a store that has a root leaves the node table
\* and rootId as they are.
C10_SecondRootRefused ==
    [][(rootId \in DOMAIN nodes /\ CreateEmptyModel)
       => (nodes' = nodes /\ rootId' = rootId)]_vars

\* C11: once getRootNode() returns a node, it returns the same node after
\* every addNode, moveNode and deleteNode call, whatever ids are passed.
C11_ReadyStaysReady ==
    [][(getRootNode(nodes, rootId) # {})
       => (getRootNode(nodes', rootId') # {} /\ rootId' = rootId)]_vars

\* the sequence without the occurrences of x
Others(seq, x) == SelectSeq(seq, LAMBDA y : y # x)

\* the position a list of length len gives to an insertion at index, clamped
\* to 0..len, and len when the index is omitted
ClampedPosition(index, len) ==
    IF IsNumber(index) THEN Max(0, Min(index[1], len)) ELSE len

\* what C12 says of the step from ns to ns2 made by moveNode(n, P, i)
MovedTo(ns, ns2, n, P, i) ==
    LET k == Len(Others(ChildrenOf(ns, P), n))
        pos == ClampedPosition(i, k)
        old == IF Has(ns[n], "parent") THEN {ns[n].parent} ELSE {}
    IN  /\ DOMAIN ns2 = DOMAIN ns
        /\ \A q \in DOMAIN ns2 : n \in Range(ChildrenOf(ns2, q)) <=> q = P
        /\ Len(ChildrenOf(ns2, P)) = k + 1
        /\ ChildrenOf(ns2, P)[pos + 1] = n
        /\ Has(ns2[n], "parent") /\ ns2[n].parent = P
        /\ Has(ns2[n], "index") /\ ns2[n].index = pos
        /\ \A q \in ({P} \cup old) \cap DOMAIN ns :
              Others(ChildrenOf(ns2, q), n) = Others(ChildrenOf(ns, q), n)

\* C12: moveNode(n, P, i) with n and P in the store and P outside n's
\* subtree leaves n in exactly one children list, that of P, at the position
\* i clamped to the number k of other children of P (k when i is omitted),
\* with n.parent = P and n.index that position, and keeps the order of the
\* other children of the old and the new parent.
C12_MovePlacesNode ==
    [][\A n \in DOMAIN nodes, P \in DOMAIN nodes, i \in IndexArgs :
          (P \notin Subtree(nodes, n) /\ MoveNode(n, P, i))
              => MovedTo(nodes, nodes', n, P, i)]_vars

\* C13: addNode(parentId, title, index) on a parent of the store with len
\* children puts the new node at the position index clamped to 0..len (len
\* when the index is omitted), gives it that position as index and keeps the
\* order of the children that were there.
C13_AddPlacesNode ==
    [][\A p \in DOMAIN nodes, t \in Titles, i \in IndexArgs :
          AddNode(p, t, i)
              => LET id == last'.nodeId
                     len == Len(ChildrenOf(nodes, p))
                     pos == ClampedPosition(i, len)
                 IN  /\ id \notin DOMAIN nodes
                     /\ DOMAIN nodes' = DOMAIN nodes \cup {id}
                     /\ Len(ChildrenOf(nodes', p)) = len + 1
                     /\ ChildrenOf(nodes', p)[pos + 1] = id
                     /\ Has(nodes'[id], "index") /\ nodes'[id].index = pos
                     /\ Others(ChildrenOf(nodes', p), id) = ChildrenOf(nodes, p)]_vars

\* the field k of the two objects is the same: unset in both or equal
SameField(o1, o2, k) ==
    /\ Has(o1, k) <=> Has(o2, k)
    /\ Has(o1, k) => o1[k] = o2[k]

\* C14: updateNode(nodeId, properties) leaves the id, parent, children and
\* index of the node as they were, whatever keys properties has.
C14_UpdateKeepsStructure ==
    [][\A n \in DOMAIN nodes, props \in PropertiesArgs :
          UpdateNode(n, props)
              => /\ n \in DOMAIN nodes'
                 /\ \A k \in {"id", "parent", "children", "index"} :
                       SameField(nodes[n], nodes'[n], k)]_vars

\* C15: moveNode with a nodeId that is not in the store changes neither the
\* node table nor rdfDataset, whatever newParentId is.
C15_MoveOfUnknownIsNoOp ==
    [][\A n \in IdArgs \ DOMAIN nodes, P \in IdArgs, i \in IndexArgs :
          MoveNode(n, P, i) => (nodes' = nodes /\ rdfDataset' = rdfDataset)]_vars

\* C16: updateNode, updateNodeDescription and deleteNode with a nodeId that
\* is not in the store change neither the node table nor rdfDataset.
C16_UnknownIdIsNoOp ==
    [][\A n \in IdArgs \ DOMAIN nodes :
          (\/ \E props \in PropertiesArgs : UpdateNode(n, props)
           \/ \E d \in DescriptionArgs : UpdateNodeDescription(n, d)
           \/ DeleteNode(n))
          => (nodes' = nodes /\ rdfDataset' = rdfDataset)]_vars

\* the stores have the same ids, the same root, and for every node the same
\* parent and the same children list
SameStructure(ns, rid, ns2, rid2) ==
    /\ DOMAIN ns2 = DOMAIN ns
    /\ getRootNode(ns2, rid2) = {} <=> getRootNode(ns, rid) = {}
    /\ rid \in DOMAIN ns => rid2 = rid
    /\ \A n \in DOMAIN ns :
          /\ SameField(ns[n], ns2[n], "parent")
          /\ ChildrenOf(ns2, n) = ChildrenOf(ns, n)

\* C17: saving the store and loading what was saved gives a store with the
\* same ids, the same root, the same parent and children list for every
\* node, and the same title for every node.
C17_RoundTrip ==
    [][SaveAndLoad
       => /\ SameStructure(nodes, rootId, nodes', rootId')
          /\ \A n \in DOMAIN nodes : SameField(nodes[n], nodes'[n], "title")]_vars

\* C17, amended: the same, except that a node whose title is the empty
\* string is loaded without a title.
C17_RoundTripButEmptyTitles ==
    [][SaveAndLoad
       => /\ SameStructure(nodes, rootId, nodes', rootId')
          /\ \A n \in DOMAIN nodes :
                IF Truthy(nodes[n], "title")
                THEN SameField(nodes[n], nodes'[n], "title")
                ELSE ~Has(nodes'[n], "title")]_vars

\* a store with a child list that moveNode has reordered and a nested node
\* has been saved and loaded
C17_Witness ==
    /\ last.op = "processLoadedData"
    /\ rootId \in DOMAIN nodes
    /\ Cardinality(DOMAIN nodes) = 4
    /\ \E a, b, c \in DOMAIN nodes :
          /\ ChildrenOf(nodes, rootId) = <<b, a>>
          /\ ChildrenOf(nodes, b) = <<c>>
          /\ nodes[a].created = generateDate(2)
          /\ nodes[b].created = generateDate(3)
          /\ Truthy(nodes[c], "title")

\* the rows of the list that are about the node n and have the key k
RowsWith(bindings, n, k) ==
    {i \in 1..Len(bindings) :
        extractLocalId(bindings[i].node) = n /\ Has(bindings[i], k)}

\* the value the last such row gives, where there is one
LastRow(bindings, n, k) ==
    bindings[CHOOSE i \in RowsWith(bindings, n, k) :
                \A j \in RowsWith(bindings, n, k) : j <= i]

\* the parent and the index that were loaded for the node n
LoadedParent(bindings, n) ==
    IF RowsWith(bindings, n, "parent") = {} THEN {}
    ELSE {extractLocalId(LastRow(bindings, n, "parent").parent)}
LoadedIndex(bindings, n) ==
    IF RowsWith(bindings, n, "index") = {} THEN 0
    ELSE parseInt(LastRow(bindings, n, "index").index)

\* C18: after processLoadedData, the children list of every loaded node p
\* holds exactly the loaded ids whose parent is p, each once, in ascending
\* order of their loaded index; a node whose parent was not loaded is in no
\* list; rootId is a loaded node of type RootNode, or null when none is.
C18_LoadLinksChildren ==
    (last.op = "processLoadedData" /\ Has(last, "data"))
    => LET b == last.data
           loaded == {extractLocalId(b[i].node) : i \in 1..Len(b)}
           roots == {n \in DOMAIN nodes : nodes[n].type = "RootNode"}
       IN  /\ DOMAIN nodes = loaded
           /\ \A p \in loaded :
                 /\ NoDuplicates(ChildrenOf(nodes, p))
                 /\ Range(ChildrenOf(nodes, p))
                       = {n \in loaded : LoadedParent(b, n) = {p}}
                 /\ \A i, j \in 1..Len(ChildrenOf(nodes, p)) :
                       i < j => LoadedIndex(b, ChildrenOf(nodes, p)[i])
                                    <= LoadedIndex(b, ChildrenOf(nodes, p)[j])
           /\ IF roots = {} THEN rootId = Null ELSE rootId \in roots

\* what the claim gives for one character
EscapeOf(c) ==
    CASE c = "\\" -> <<"\\", "\\">>
      [] c = "\"" -> <<"\\", "\"">>
      [] c = "\n" -> <<"\\", "n">>
      [] c = "\r" -> <<"\\", "r">>
      [] c = "\t" -> <<"\\", "t">>
      [] OTHER -> <<c>>

RECURSIVE CharByChar(_)
CharByChar(text) ==
    IF text = <<>> THEN <<>> ELSE EscapeOf(Head(text)) \o CharByChar(Tail(text))

\* reading an escaped text back: a backslash and the character after it
\* stand for one character
RECURSIVE Unescape(_)
Unescape(text) ==
    IF text = <<>> THEN <<>>
    ELSE IF Head(text) = "\\" /\ Len(text) >= 2
    THEN <<CASE text[2] = "n" -> "\n"
             [] text[2] = "r" -> "\r"
             [] text[2] = "t" -> "\t"
             [] OTHER -> text[2]>> \o Unescape(Tail(Tail(text)))
    ELSE <<Head(text)>> \o Unescape(Tail(text))

\* C19: escapeTurtle maps its input character by character (backslash,
\* quote, newline, carriage return and tab to their two-character escapes,
\* every other character to itself), so that reading the escapes back gives
\* the input again.
C19_EscapeCharByChar ==
    last.op = "escapeTurtle"
    => /\ last.result = CharByChar(last.text)
       /\ Unescape(last.result) = last.text

\* a backslash followed by the letter n, and a newline, have been escaped
C19_Witness ==
    /\ last.op = "escapeTurtle"
    /\ last.text = <<"\\", "n", "\n">>
    /\ last.result = <<"\\", "\\", "n", "\\", "n">>

\* C20: when the PUT of saveData rejects or its response is not ok, saveData
\* resolves to false without throwing, publishes model:error, and leaves the
\* node table, rootId and rdfDataset as they were.
C20_FailedSaveChangesNothing ==
    [][\A outcome \in {"notOk", "rejected"} :
          SaveData(outcome)
          => /\ ~last'.threw
             /\ last'.result = FALSE
             /\ last'.published = <<"model:error">>
             /\ nodes' = nodes
             /\ rootId' = rootId
             /\ rdfDataset' = rdfDataset]_vars

\* a save of a TrestleRDFModel with a node under its root was rejected
C20_Witness ==
    /\ last.op = "saveData"
    /\ last.outcome = "rejected"
    /\ last.result = FALSE
    /\ IsRDF
    /\ \E n \in DOMAIN nodes :
          /\ Has(nodes[n], "parent") /\ nodes[n].parent = rootId
          /\ MatchSubject(rdfDataset, n) # {}

C22_GeneratedIdIsFresh ==
    [][/\ \A r \in RandArgs :
             CreateEmptyModelInMs(r) => generateNodeId("root", clock, r) \notin DOMAIN nodes
       /\ \A p \in DOMAIN nodes, t \in Titles, r \in RandArgs :
             AddNodeInMs(p, t, None, r)
             => generateNodeId("nid", clock, r) \notin DOMAIN nodes]_vars

\* the ts:index quads of a node are exactly the one for its index field
IndexQuadIsCurrent(ds, ns, c) ==
    c \in DOMAIN ns
    => MatchSubjectPredicate(ds, c, ts_index)
       = IF Has(ns[c], "index")
         THEN {Quad(Subject(c), ts_index, PlainLiteral(ToString(ns[c].index)))}
         ELSE {}

\* C23: after TrestleRDFModel.moveNode has moved a node from its parent A to
\* a different parent B (outside the node's subtree, in a tree-shaped
\* store), the ts:index quad of every child of A and of B gives that child's
\* index in the store.
C23_MoveReprojectsBothLists ==
    [][\A n \in DOMAIN nodes, B \in DOMAIN nodes, i \in {None, Some(0)} :
          (/\ IsRDF
           /\ TreeShaped(nodes)
           /\ Has(nodes[n], "parent") /\ nodes[n].parent \in DOMAIN nodes
           /\ nodes[n].parent # B
           /\ B \notin Subtree(nodes, n)
           /\ MoveNode(n, B, i))
          => LET A == nodes[n].parent
             IN  \A c \in Range(ChildrenOf(nodes', A)) \cup Range(ChildrenOf(nodes', B)) :
                    IndexQuadIsCurrent(rdfDataset', nodes', c)]_vars

\* the quads of ds whose subject is none of the given nodes
QuadsOfOthers(ds, ids) == {q \in ds : \A c \in ids : q[1] # Subject(c)}

\* C24: the re-projections of TrestleRDFModel.moveNode (of the moved node and
\* of the new parent's children) remove only quads with a re-projected node
\* as subject: every quad with another subject, such as the ts:parent quads
\* of the moved node's own children, is still in rdfDataset afterwards.
C24_ReprojectionKeepsOtherSubjects ==
    [][\A n \in DOMAIN nodes, P \in DOMAIN nodes, i \in {None, Some(0)} :
          (/\ IsRDF
           /\ TreeShaped(nodes)
           /\ P \notin Subtree(nodes, n)
           /\ MoveNode(n, P, i))
          => QuadsOfOthers(rdfDataset, {n} \cup Range(ChildrenOf(nodes', P)))
             \subseteq rdfDataset']_vars
\* the description quads of a node, under either predicate
DescriptionQuads(ds, id) ==
    MatchSubjectPredicate(ds, id, ts_description)
    \cup MatchSubjectPredicate(ds, id, dc_description)

\* C25: after updateNode or updateNodeDescription on a node of a
\* TrestleRDFModel, rdfDataset holds exactly one description quad for it,
\* ts:description with the node's description, when the node has a
\* description (not the empty string), and none when it has no description.
C25_OneDescriptionQuad ==
    (/\ IsRDF
     /\ last.op \in {"updateNode", "updateNodeDescription"}
     /\ last.nodeId \in DOMAIN nodes)
    => LET n == last.nodeId
       IN  /\ ~Has(nodes[n], "description") => DescriptionQuads(rdfDataset, n) = {}
           /\ (Has(nodes[n], "description") /\ nodes[n].description # "")
              => DescriptionQuads(rdfDataset, n)
                 = {Quad(Subject(n), ts_description,
                         PlainLiteral(nodes[n].description))}

\* C26: re-projecting a node (as updateNode does) adds a quad for created,
\* parent and index only when the node has that field: without created
\* there is no dc:created quad, without parent no ts:parent quad, without
\* index no ts:index quad.
C26_NoQuadForAbsentField ==
    (/\ IsRDF
     /\ last.op = "updateNode"
     /\ last.nodeId \in DOMAIN nodes)
    => LET n == last.nodeId
       IN  /\ ~Has(nodes[n], "created")
              => MatchSubjectPredicate(rdfDataset, n, dc_created) = {}
           /\ ~Has(nodes[n], "parent")
              => MatchSubjectPredicate(rdfDataset, n, ts_parent) = {}
           /\ ~Has(nodes[n], "index")
              => MatchSubjectPredicate(rdfDataset, n, ts_index) = {}
\* C27: after processLoadedData, whatever the loaded index values, every
\* child's index field equals its position in its parent's children list.
C27_LoadedIndexIsPosition ==
    (last.op = "processLoadedData" /\ Has(last, "data"))
    => \A p \in DOMAIN nodes :
          \A i \in 1..Len(ChildrenOf(nodes, p)) :
             LET c == ChildrenOf(nodes, p)[i]
             IN  Has(nodes[c], "index") /\ nodes[c].index = i - 1

\* C28: saveData started while an earlier PUT is in flight issues a second
\* PUT next to it, and each request carries the Turtle of the tree as it was
\* when its saveData call started (later edits do not change it).
C28_SavesAreNotDeduplicated ==
    [][/\ StartSave
          => /\ Len(inFlight') = Len(inFlight) + 1
             /\ inFlight'[Len(inFlight')].body
                   = toTurtle(nodes, rootId, IdsInOrder(nodes, clock))
             /\ \A i \in 1..Len(inFlight) : inFlight'[i] = inFlight[i]
       /\ (\E p \in DOMAIN nodes, t \in TitleArgs : AddNode(p, t, None))
          => inFlight' = inFlight
       /\ (\E n \in DOMAIN nodes : DeleteNode(n)) => inFlight' = inFlight]_vars

\* two requests are in flight and carry different trees
C28_Witness ==
    /\ Len(inFlight) = 2
    /\ inFlight[1].body # inFlight[2].body
    /\ last.op = "saveData"

\* C29: when the named node of a field of the post cannot be constructed,
\* createPostData still returns the dataset, with the quads of the type, the
\* creation date and the title of the post.
C29_FieldFailureIsLocal ==
    (last.op = "createPostData" /\ last.rejected # {})
    => /\ ~last.result.threw
       /\ \A p \in {rdf_type, dc_created, dc_title} :
             \E q \in last.result.dataset :
                q[1] = NamedNode(last.postData.customId) /\ q[2] = p
\* C30: handleAddSibling for a node at position i of its parent's children
\* (a list without duplicates) adds exactly one new node, to the same parent
\* at position i+1, leaves the order of the other children, gives every
\* child its position as index and publishes node:added with the new node;
\* when the node or its parent is not in the store nothing changes and
\* nothing is published.
C30_AddSiblingPlacesAfter ==
    [][\A n \in IdArgs :
          HandleAddSibling(n)
          => IF /\ n \in DOMAIN nodes
                /\ Has(nodes[n], "parent")
                /\ nodes[n].parent \in DOMAIN nodes
             THEN LET P == nodes[n].parent
                      ch == ChildrenOf(nodes, P)
                      ch2 == ChildrenOf(nodes', P)
                  IN  (n \in Range(ch) /\ NoDuplicates(ch))
                      => \E x \in DOMAIN nodes' \ DOMAIN nodes :
                            /\ DOMAIN nodes' = DOMAIN nodes \cup {x}
                            /\ nodes'[x].parent = P
                            /\ nodes'[x].children = <<>>
                            /\ Len(ch2) = Len(ch) + 1
                            /\ ch2[IndexOf(ch, n) + 2] = x
                            /\ Others(ch2, x) = ch
                            /\ \A i \in 1..Len(ch2) : nodes'[ch2[i]].index = i - 1
                            /\ \A m \in DOMAIN nodes \ ({P} \cup Range(ch)) :
                                  nodes'[m] = nodes[m]
                            /\ Len(last'.published) = 1
                            /\ last'.published[1].event = "node:added"
                            /\ last'.published[1].node = nodes'[x]
             ELSE /\ nodes' = nodes
                  /\ rdfDataset' = rdfDataset
                  /\ rootId' = rootId
                  /\ last'.published = <<>>]_vars

\* a sibling was added after the first of two children
C30_Witness ==
    /\ last.op = "handleAddSibling"
    /\ Len(last.published) = 1
    /\ last.nodeId \in DOMAIN nodes
    /\ LET P == nodes[last.nodeId].parent
           x == last.published[1].node.id
       IN  /\ P \in DOMAIN nodes
           /\ Len(ChildrenOf(nodes, P)) = 3
           /\ ChildrenOf(nodes, P)[1] = last.nodeId
           /\ ChildrenOf(nodes, P)[2] = x
           /\ nodes[ChildrenOf(nodes, P)[3]].index = 2

\* C31: handleIndentNode makes the node the last child of the sibling just
\* before it and changes nothing for a first child or a node without parent;
\* handleOutdentNode puts the node just after its former parent in the
\* grandparent's children and changes nothing when the parent is the root.
C31_IndentAndOutdent ==
    [][\A n \in IdArgs :
          /\ HandleIndentNode(n)
             => IF HasParent(nodes, n) /\ nodes[n].parent \in DOMAIN nodes
                   /\ IndexOf(ChildrenOf(nodes, nodes[n].parent), n) >= 1
                THEN LET P == nodes[n].parent
                         ch == ChildrenOf(nodes, P)
                         sib == ch[IndexOf(ch, n)]
                     IN  /\ DOMAIN nodes' = DOMAIN nodes
                         /\ nodes'[n].parent = sib
                         /\ ChildrenOf(nodes', sib) = Append(ChildrenOf(nodes, sib), n)
                         /\ nodes'[n].index = Len(ChildrenOf(nodes, sib))
                         /\ ChildrenOf(nodes', P) = Others(ch, n)
                         /\ \A m \in DOMAIN nodes \ {P, sib} :
                               ChildrenOf(nodes', m) = ChildrenOf(nodes, m)
                ELSE nodes' = nodes
          /\ HandleOutdentNode(n)
             => IF HasParent(nodes, n) /\ nodes[n].parent \in DOMAIN nodes
                   /\ nodes[n].parent # rootId
                   /\ HasParent(nodes, nodes[n].parent)
                THEN LET P == nodes[n].parent
                         G == nodes[P].parent
                         ch == ChildrenOf(nodes, G)
                     IN  /\ DOMAIN nodes' = DOMAIN nodes
                         /\ nodes'[n].parent = G
                         /\ Len(ChildrenOf(nodes', G)) = Len(ch) + 1
                         /\ ChildrenOf(nodes', G)[IndexOf(ch, P) + 2] = n
                         /\ Others(ChildrenOf(nodes', G), n) = ch
                         /\ nodes'[n].index = IndexOf(ch, P) + 1
                         /\ ChildrenOf(nodes', P) = Others(ChildrenOf(nodes, P), n)
                         /\ \A m \in DOMAIN nodes \ {P, G} :
                               ChildrenOf(nodes', m) = ChildrenOf(nodes, m)
                ELSE nodes' = nodes]_vars

\* a node was indented under a sibling that already had a child
C31_WitnessIndent ==
    /\ last.op = "handleIndentNode"
    /\ Len(last.published) = 1
    /\ LET n == last.nodeId
       IN  /\ Len(ChildrenOf(nodes, nodes[n].parent)) = 2
           /\ ChildrenOf(nodes, nodes[n].parent)[2] = n
           /\ nodes[n].parent # rootId

\* the nodes whose children list holds x
ListsHolding(ns, x) == {p \in DOMAIN ns : IndexOf(ChildrenOf(ns, p), x) # -1}

\* C32: when the view moves a top-level item (view:moveNode with newParentId
\* 'trestle-root'), the node is put in the root's children at newIndex and
\* is afterwards in exactly one children list.
C32_TopLevelMoveStaysUnderRoot ==
    [][\A n \in DOMAIN nodes, step \in {-1, 1} :
          ViewMoveTopLevel(n, step)
          => LET newIndex == IndexOf(ChildrenOf(nodes, rootId), n) + step
             IN  /\ Cardinality(ListsHolding(nodes', n)) = 1
                 /\ Len(ChildrenOf(nodes', rootId)) > newIndex
                 /\ ChildrenOf(nodes', rootId)[newIndex + 1] = n]_vars

\* C33: in every state reached through addNode, moveNode and deleteNode,
\* also after a moveNode under the moved node itself or one of its
\* descendants, deleteNode and getAllDescendantIds of any node come to an end
\* without exhausting the call stack.
C33_DeleteAndDescendantsTerminate ==
    \A n \in DOMAIN nodes :
        /\ ~getAllDescendantIds(nodes, n, {}).threw
        /\ ~deleteNodeNodes(nodes, n).threw

\* C34: the nodes that createEmptyModel and addNode put in the store while
\* the load of initialize() was awaited are still in the store when the load
\* has completed.
C34_LoadKeepsEdits ==
    [][\A outcome \in LoadOutcomes, bindings \in RowLists(MaxRowsRace) :
          SettleLoad(outcome, bindings)
          => \A n \in DOMAIN nodes : n \in DOMAIN nodes']_vars

\* the tree is well formed: no node is its own ancestor, every node but the
\* root is reached from the root through children lists, and every node but
\* the root is held once, by the list of the node its parent field names
WellFormed(ns, rid) ==
    /\ rid \in DOMAIN ns
    /\ Acyclic(ns)
    /\ ListsHolding(ns, rid) = {}
    /\ \A n \in DOMAIN ns \ {rid} :
          /\ n \in Descendants(ns, rid, Cardinality(DOMAIN ns))
          /\ Has(ns[n], "parent")
          /\ ListsHolding(ns, n) = {ns[n].parent}
          /\ Cardinality({i \in 1..Len(ChildrenOf(ns, ns[n].parent)) :
                             ChildrenOf(ns, ns[n].parent)[i] = n}) = 1

\* C35: when the tree is changed only through handleAddChild,
\* handleAddSibling, handleIndentNode, handleOutdentNode, handleUpdateNode
\* with a title and handleDeleteNode of nodes other than the root, every
\* state reached is well formed.
C35_HandlersKeepTreeWellFormed == WellFormed(nodes, rootId)

\* handleDeleteNode has removed a node together with a descendant from a
\* tree that keeps other nodes
C35_WitnessSubtreeDeleted ==
    /\ last.op = "handleDeleteNode"
    /\ Len(last.published) = 1
    /\ Cardinality(DOMAIN last.prev) >= Cardinality(DOMAIN nodes) + 2
    /\ Cardinality(DOMAIN nodes) >= 2

\* C36: handleIndentNode of a node that is not a first child followed by
\* handleOutdentNode of the same node gives every node the parent and every
\* children list it had before the two calls.
C36_IndentThenOutdentRestores ==
    [][\A n \in DOMAIN nodes :
          (/\ last.op = "handleIndentNode"
           /\ last.nodeId = n
           /\ last.published # <<>>
           /\ HandleOutdentNode(n))
          => /\ DOMAIN nodes' = DOMAIN last.prev
             /\ \A m \in DOMAIN last.prev :
                   /\ ChildrenOf(nodes', m) = ChildrenOf(last.prev, m)
                   /\ Has(nodes'[m], "parent") = Has(last.prev[m], "parent")
                   /\ Has(last.prev[m], "parent")
                      => nodes'[m].parent = last.prev[m].parent]_vars

\* a node between two siblings was indented and then outdented
C36_WitnessBackBetweenSiblings ==
    /\ last.op = "handleOutdentNode"
    /\ last.afterIndent
    /\ last.published # <<>>
    /\ LET ch == ChildrenOf(nodes, nodes[last.nodeId].parent)
       IN  /\ Len(ch) = 3
           /\ ch[2] = last.nodeId

\* the table and the quad set are the same in two stores
SameStore(a, b) == a.nodes = b.nodes /\ a.rdfDataset = b.rdfDataset

\* the times a second application can read from the system clock: the
\* millisecond of the first or a later one
Later == {clock, clock + 1}

\* C37: updateNode(id, props), deleteNode(id) and moveNode(id, parent, index)
\* applied a second time with the same arguments, as the model's handlers of
\* node:updated, node:deleted and node:moved do after the controller's call,
\* leave the node table and the quad set as the first application left them.
C37_SecondDispatchChangesNothing ==
    \A id \in IdArgs, now \in Later :
        /\ \A props \in PropertiesArgs :
              LET once == updateNodeCall(nodes, rdfDataset, id, props)
                  twice == updateNodeAt(once.nodes, once.rdfDataset, id, props, now)
              IN  SameStore(once, twice)
        /\ LET once == deleteNodeCall(nodes, rdfDataset, id)
               twice == deleteNodeCall(once.nodes, once.rdfDataset, id)
           IN  SameStore(once, twice)
        /\ \A parent \in IdArgs, index \in IndexArgs :
              LET once == moveNodeCall(nodes, rdfDataset, id, parent, index)
                  twice == moveNodeAt(once.nodes, once.rdfDataset, id, parent,
                                      index, now)
              IN  SameStore(once, twice)

\* a is b with some of its entries left out
RECURSIVE SubSeqOf(_, _)
SubSeqOf(a, b) ==
    IF a = <<>> THEN TRUE
    ELSE IF b = <<>> THEN FALSE
    ELSE IF Head(a) = Head(b) THEN SubSeqOf(Tail(a), Tail(b))
    ELSE SubSeqOf(a, Tail(b))

\* the same delivery with every callback that throws returning instead
Calm(does) == [c \in DOMAIN does |-> IF does[c] = "throws" THEN "returns" ELSE does[c]]

\* C38: publish calls the callbacks of the event in the order in which they
\* were subscribed; what a callback throws does not reach the publisher and
\* does not keep the callbacks after it from being called.
C38_OrderedAndIsolated ==
    [][\A event \in Events, does \in [Callbacks -> Behaviours] :
          Publish(event, does)
          => /\ ~last'.threw
             /\ SubSeqOf(last'.calls, Subscribed(subscribers, event))
             /\ last'.calls = publish(subscribers, event, Calm(does)).calls
             /\ (\A c \in Callbacks : does[c] \notin Callbacks)
                => last'.calls = Subscribed(subscribers, event)]_vars

\* three callbacks were subscribed, the first threw and all three were called
C38_WitnessThrowThenOthers ==
    /\ last.op = "publish"
    /\ Len(last.subscribed) = 3
    /\ NoDuplicates(last.subscribed)
    /\ last.does[last.subscribed[1]] = "throws"
    /\ last.calls = last.subscribed
    /\ ~last.threw

\* how often x occurs in seq
Count(seq, x) == Cardinality({i \in 1..Len(seq) : seq[i] = x})

\* C39: publish calls every callback that was subscribed when it began
\* exactly once, also when a callback calls an unsubscribe function during
\* the delivery; once the unsubscribe function of a callback has run the
\* callback is no longer subscribed, and the other callbacks still are.
\* Read for events to which no callback is subscribed twice.
C39_DeliveredOnceDespiteUnsubscribe ==
    [][\A event \in Events :
          NoDuplicates(Subscribed(subscribers, event))
          => /\ \A does \in [Callbacks -> Behaviours] :
                   Publish(event, does)
                   => /\ \A c \in Callbacks :
                            Count(last'.calls, c)
                            = Count(Subscribed(subscribers, event), c)
                      /\ \A c \in Range(last'.calls) :
                            does[c] \in Callbacks
                            => does[c] \notin Range(Subscribed(subscribers', event))
             /\ \A callback \in Callbacks :
                   Unsubscribe(event, callback)
                   => /\ callback \notin Range(Subscribed(subscribers', event))
                      /\ \A c \in Callbacks \ {callback} :
                            Count(Subscribed(subscribers', event), c)
                            = Count(Subscribed(subscribers, event), c)]_vars

====
